---- MODULE Spec2Model ----
(***************************************************************************)
(* Model of cloudctl's Cloudflare client: the retry layer (Client.WithRetry *)
(* and the error wrapping it uses) and the DNS batch engine                 *)
(* (BatchCreateDNSRecords, BatchCreateDNSRecordsConcurrent, processZone).   *)
(***************************************************************************)
EXTENDS Integers, Sequences, FiniteSets, TLC

(***************************************************************************)
(* Bounds of the model.                                                     *)
(***************************************************************************)
MaxAttemptsBound == 4
MaxZones == 2
MaxRecords == 2
MaxConcurrencyBound == 2
MaxPlanRecords == 4
MaxAwsCalls == 2
MaxClock == 2
MaxSendAttempts == 2
MaxCmdZones == 2
MaxCmdRecords == 2
MaxFileZones == 2
MaxFileRecords == 2
ListPerPage == 2
MaxListItems == 5
MaxListAttempts == 3
MaxCbkTasks == 3
MaxCbkRecords == 2
MaxFlatItems == 3

VARIABLES
    \* ---- configuration read by WithRetry (config.Get()) ----
    cfg,          \* [Present, Enabled, MaxAttempts, InitialDelay, MaxDelay]
    \* ---- one WithRetry call ----
    rpc,          \* position of the call: "idle","start","direct","call","wait","done"
    attempt,      \* loop variable attempt
    delay,        \* local delay (seconds)
    lastErr,      \* local lastErr
    ret,          \* value returned by WithRetry (NoRet while running)
    exitPath,     \* which return statement was taken
    outcomes,     \* results of the invocations of fn, in order
    waits,        \* backoff waits that elapsed, in order
    timerFired,   \* the channel of time.After(delay) is ready
    cancelled,    \* ctx.Done() is closed
    cancelInWait, \* ctx was cancelled while the call was in the select
    cancelAt,     \* what the call had done when ctx was cancelled (NoCancel before)
    \* ---- batch engine ----
    config,       \* the DNSBatchConfig: sequence of zone configs
    mode,         \* "seq": BatchCreateDNSRecords, "con": BatchCreateDNSRecordsConcurrent
    maxConcurrency,
    apiZoneFail,  \* zone names for which GetZoneByName fails
    apiRecFail,   \* <<zone id, record name>> for which CreateDNSRecord fails
    mpc,          \* position of the batch function
    zoneIdx,      \* index of the zone loop (sequential loop / spawn loop), 1-based
    result,       \* the *DNSBatchResult being built
    tpc,          \* per zone: position of its processing (its goroutine in "con")
    zwork,        \* per zone: processZone's locals (result, zone id, err)
    semaphore,    \* number of elements in the semaphore channel
    wg,           \* counter of the WaitGroup
    resolveCalls, \* per zone index: number of GetZoneByName calls
    createCalls,  \* per zone index, record index: number of CreateDNSRecord calls
    \* ---- calls of the pure functions (classifyError, Validate, ...) ----
    fn,           \* the function called ("none" when no call is modelled)
    arg,          \* its argument
    res,          \* its result (NoRes before the call)
    \* ---- AWS CloudFront client ----
    clock,        \* time.Now().Unix()
    awsCalls,     \* per call: position, input, CallerReference, requests sent, result
    \* ---- the batch-create command ----
    cmd,          \* runDNSBatchCreate: position, concurrency, report, exit code
    \* ---- paginated listing (ListZones, ListDNSRecords) ----
    lst,          \* position, provider pages, page, collected items, attempt
    \* ---- flat AWS batch operations ----
    flat,         \* position, inputs, loop index, result being built
    \* ---- progress callback of the concurrent batch function ----
    cbk           \* per zone task: position; semaphore; callbacks running

retryVars == <<cfg, rpc, attempt, delay, lastErr, ret, exitPath, outcomes, waits,
               timerFired, cancelInWait, cancelAt, cancelAt>>
batchVars == <<config, mode, maxConcurrency, apiZoneFail, apiRecFail, mpc, zoneIdx,
               result, tpc, zwork, semaphore, wg, resolveCalls, createCalls>>
auxVars == <<fn, arg, res, clock, awsCalls, cmd, lst, flat, cbk>>
vars == <<retryVars, cancelled, batchVars, auxVars>>

(***************************************************************************)
(* Errors.  A Go error value is nil, a plain error carrying a message, a   *)
(* *Error (classified), a plain error wrapping a *Error (%w), or the        *)
(* context's error.                                                         *)
(***************************************************************************)
ErrorTypeUnknown    == 0
ErrorTypeAuth       == 1
ErrorTypeNotFound   == 2
ErrorTypeConflict   == 3
ErrorTypeRateLimit  == 4
ErrorTypeNetwork    == 5
ErrorTypeValidation == 6
ErrorTypePermission == 7

NilErr == [kind |-> "nil"]
NoRet  == [kind |-> "noret"]
PlainErr(m) == [kind |-> "plain", msg |-> m]
CfErr(t, o, m) == [kind |-> "cf", type |-> t, op |-> o, msg |-> m]
WrappedCf(m, inner) == [kind |-> "wrap", msg |-> m, inner |-> inner]
CtxErr == [kind |-> "ctx", msg |-> "context canceled"]

\* err.Error()
ErrorString(e) ==
    IF e.kind = "cf"
    THEN IF e.op # "" THEN e.op \o ": " \o e.msg ELSE e.msg
    ELSE e.msg

(***************************************************************************)
(* toLower / containsSubstr / contains / classifyError                      *)
(***************************************************************************)
UpperToLower ==
    [c \in {"A","B","C","D","E","F","G","H","I","J","K","L","M","N","O","P","Q",
            "R","S","T","U","V","W","X","Y","Z"} |->
       CASE c = "A" -> "a" [] c = "B" -> "b" [] c = "C" -> "c" [] c = "D" -> "d"
         [] c = "E" -> "e" [] c = "F" -> "f" [] c = "G" -> "g" [] c = "H" -> "h"
         [] c = "I" -> "i" [] c = "J" -> "j" [] c = "K" -> "k" [] c = "L" -> "l"
         [] c = "M" -> "m" [] c = "N" -> "n" [] c = "O" -> "o" [] c = "P" -> "p"
         [] c = "Q" -> "q" [] c = "R" -> "r" [] c = "S" -> "s" [] c = "T" -> "t"
         [] c = "U" -> "u" [] c = "V" -> "v" [] c = "W" -> "w" [] c = "X" -> "x"
         [] c = "Y" -> "y" [] c = "Z" -> "z"]

RECURSIVE toLowerFrom(_, _)
toLowerFrom(s, i) ==
    IF i > Len(s) THEN ""
    ELSE LET c == SubSeq(s, i, i)
             lc == IF c \in DOMAIN UpperToLower THEN UpperToLower[c] ELSE c
         IN  lc \o toLowerFrom(s, i + 1)

toLower(s) == toLowerFrom(s, 1)

containsSubstr(s, substr) ==
    IF Len(substr) = 0 THEN TRUE
    ELSE IF Len(substr) > Len(s) THEN FALSE
    ELSE \E i \in 0..(Len(s) - Len(substr)) :
            SubSeq(s, i + 1, i + Len(substr)) = substr

\* substrs is the sequence of the variadic arguments
contains(s, substrs) ==
    LET ls == toLower(s)
    IN  \E k \in 1..Len(substrs) : containsSubstr(ls, toLower(substrs[k]))

\* a switch whose Validation case comes first
classifyMessage_ValidationFirst(errMsg) ==
    CASE contains(errMsg, <<"invalid", "validation", "bad request">>) -> ErrorTypeValidation
      [] contains(errMsg, <<"authentication", "unauthorized", "invalid token",
                            "invalid api token">>) -> ErrorTypeAuth
      [] contains(errMsg, <<"not found", "does not exist">>) -> ErrorTypeNotFound
      [] contains(errMsg, <<"already exists", "conflict", "duplicate">>) -> ErrorTypeConflict
      [] contains(errMsg, <<"rate limit", "too many requests">>) -> ErrorTypeRateLimit
      [] contains(errMsg, <<"network", "connection", "timeout", "dial">>) -> ErrorTypeNetwork
      [] contains(errMsg, <<"forbidden", "permission denied", "access denied">>) -> ErrorTypePermission
      [] OTHER -> ErrorTypeUnknown

classifyMessage(errMsg) ==
    CASE contains(errMsg, <<"authentication", "unauthorized", "invalid token",
                            "invalid api token">>) -> ErrorTypeAuth
      [] contains(errMsg, <<"not found", "does not exist">>) -> ErrorTypeNotFound
      [] contains(errMsg, <<"already exists", "conflict", "duplicate">>) -> ErrorTypeConflict
      [] contains(errMsg, <<"rate limit", "too many requests">>) -> ErrorTypeRateLimit
      [] contains(errMsg, <<"network", "connection", "timeout", "dial">>) -> ErrorTypeNetwork
      [] contains(errMsg, <<"invalid", "validation", "bad request">>) -> ErrorTypeValidation
      [] contains(errMsg, <<"forbidden", "permission denied", "access denied">>) -> ErrorTypePermission
      [] OTHER -> ErrorTypeUnknown

classifyError(e) ==
    IF e = NilErr THEN ErrorTypeUnknown ELSE classifyMessage(ErrorString(e))

(***************************************************************************)
(* WrapError and shouldRetry                                                *)
(***************************************************************************)
\* errors.As(err, &cfErr): the first *Error in err's chain, NilErr when none
AsCfErr(e) ==
    CASE e.kind = "cf"   -> e
      [] e.kind = "wrap" -> e.inner
      [] OTHER           -> NilErr

\* a wrapper that always stamps the new operation on the error
WrapError_Restamps(e, operation) ==
    IF e = NilErr THEN NilErr
    ELSE IF AsCfErr(e) # NilErr
         THEN [AsCfErr(e) EXCEPT !.op = operation]
         ELSE CfErr(classifyError(e), operation, ErrorString(e))

WrapError(e, operation) ==
    IF e = NilErr THEN NilErr
    ELSE IF AsCfErr(e) # NilErr
         THEN LET cfErr == AsCfErr(e)
              IN  IF cfErr.op = "" THEN [cfErr EXCEPT !.op = operation] ELSE cfErr
         ELSE CfErr(classifyError(e), operation, ErrorString(e))

\* a stricter retry policy: validation errors are not retried
shouldRetry_Strict(e) ==
    IF e = NilErr THEN FALSE
    ELSE IF AsCfErr(e) # NilErr /\ AsCfErr(e).type = ErrorTypeValidation THEN FALSE
    ELSE TRUE

shouldRetry(e) == IF e = NilErr THEN FALSE ELSE TRUE

IsClassified(e) == e.kind = "cf"

(***************************************************************************)
(* Inputs of the retry layer                                                *)
(***************************************************************************)
OpName == "create dns record"

InitialDelays == {1, 5}
MaxDelays == {1, 4}
MaxAttemptsValues == {-1} \cup (1..MaxAttemptsBound)

\* configurations config.Get() can return: nil, or a loaded configuration
\* (applyDefaults has replaced a zero max_attempts / delay)
NoConfig == [Present |-> FALSE, Enabled |-> FALSE, MaxAttempts |-> 3,
             InitialDelay |-> 1, MaxDelay |-> 30]
Configs ==
    {NoConfig} \cup
    [Present : {TRUE}, Enabled : BOOLEAN, MaxAttempts : MaxAttemptsValues,
     InitialDelay : InitialDelays, MaxDelay : MaxDelays]

\* what one invocation of fn can return
FnResults ==
    { NilErr,
      PlainErr("dial tcp: connection refused"),
      PlainErr("Invalid Token"),
      CfErr(ErrorTypeValidation, "test", "bad value"),
      CfErr(ErrorTypeNotFound, "", "zone missing"),
      WrappedCf("list failed: rate limit", CfErr(ErrorTypeRateLimit, "list", "rate limit")) }

\* cancelAt before any cancellation
NoCancel == [fns |-> -1, waits |-> -1, timerFired |-> FALSE, late |-> FALSE]

RetryIdle ==
    /\ rpc = "idle" /\ attempt = 0 /\ delay = 0 /\ lastErr = NilErr
    /\ ret = NoRet /\ exitPath = "none" /\ outcomes = <<>> /\ waits = <<>>
    /\ timerFired = FALSE /\ cancelInWait = FALSE /\ cancelAt = NoCancel

(***************************************************************************)
(* Client.WithRetry, one action per step of the call                        *)
(***************************************************************************)
Return(e, path) ==
    /\ ret' = e
    /\ exitPath' = path
    /\ rpc' = "done"

\* the head of `for attempt := 1; attempt <= maxAttempts; attempt++`
\* followed, when the loop is left, by `return WrapError(lastErr, operation)`
LoopHead(a, le) ==
    /\ attempt' = a
    /\ lastErr' = le
    /\ IF a <= cfg.MaxAttempts
       THEN /\ rpc' = "call"
            /\ UNCHANGED <<ret, exitPath>>
       ELSE Return(WrapError(le, OpName), "exhausted")

\* entry: cfg == nil || !cfg.API.Retry.Enabled, else initialise the loop
WithRetryEnter ==
    /\ rpc = "start"
    /\ IF ~cfg.Present \/ ~cfg.Enabled
       THEN /\ rpc' = "direct"
            /\ UNCHANGED <<attempt, delay, lastErr, ret, exitPath>>
       ELSE /\ delay' = cfg.InitialDelay
            /\ LoopHead(1, NilErr)
    /\ UNCHANGED <<cfg, outcomes, waits, timerFired, cancelInWait, cancelAt, cancelled, batchVars, auxVars>>

\* retry disabled: return fn()
DirectCall ==
    /\ rpc = "direct"
    /\ \E e \in FnResults :
         /\ outcomes' = Append(outcomes, e)
         /\ Return(e, "disabled")
    /\ UNCHANGED <<cfg, attempt, delay, lastErr, waits, timerFired, cancelInWait, cancelAt,
                   cancelled, batchVars, auxVars>>

\* one iteration of the loop up to the select: err := fn() and what follows
InvokeFn ==
    /\ rpc = "call"
    /\ \E e \in FnResults :
         /\ outcomes' = Append(outcomes, e)
         /\ IF e = NilErr
            THEN /\ Return(NilErr, "success")
                 /\ UNCHANGED <<attempt, lastErr, timerFired>>
            ELSE IF ~shouldRetry(e)
            THEN /\ Return(WrapError(e, OpName), "noretry")
                 /\ lastErr' = e
                 /\ UNCHANGED <<attempt, timerFired>>
            ELSE IF attempt < cfg.MaxAttempts
            THEN /\ rpc' = "wait"
                 /\ lastErr' = e
                 /\ timerFired' = FALSE
                 /\ UNCHANGED <<attempt, ret, exitPath>>
            ELSE /\ LoopHead(attempt + 1, e)
                 /\ UNCHANGED timerFired
    /\ UNCHANGED <<cfg, delay, waits, cancelInWait, cancelAt, cancelled, batchVars, auxVars>>

\* the timer of time.After(delay) expires
TimerFire ==
    /\ rpc = "wait"
    /\ ~timerFired
    /\ timerFired' = TRUE
    /\ cancelAt' = IF cancelled THEN [cancelAt EXCEPT !.late = TRUE] ELSE cancelAt
    /\ UNCHANGED <<cfg, rpc, attempt, delay, lastErr, ret, exitPath, outcomes, waits,
                   cancelInWait, cancelled, batchVars, auxVars>>

\* a select that does not return on ctx.Done() but goes on to the next attempt
SelectCtxDone_KeepsRetrying ==
    /\ rpc = "wait"
    /\ cancelled
    /\ rpc' = "call"
    /\ attempt' = attempt + 1
    /\ UNCHANGED <<cfg, delay, lastErr, ret, exitPath, outcomes, waits, timerFired,
                   cancelInWait, cancelAt, cancelled, batchVars, auxVars>>

\* a select whose ctx.Done() branch behaves like an elapsed timer
SelectCtxDone_WaitsOn ==
    /\ rpc = "wait"
    /\ cancelled
    /\ waits' = Append(waits, delay)
    /\ LoopHead(attempt + 1, lastErr)
    /\ UNCHANGED <<cfg, delay, outcomes, timerFired, cancelInWait, cancelAt,
                   cancelled, batchVars, auxVars>>

\* select: case <-ctx.Done(): return ctx.Err()
SelectCtxDone ==
    /\ rpc = "wait"
    /\ cancelled
    /\ Return(CtxErr, "cancel")
    /\ UNCHANGED <<cfg, attempt, delay, lastErr, outcomes, waits, timerFired,
                   cancelInWait, cancelAt, cancelled, batchVars, auxVars>>

\* a doubling that is never capped
NextDelay_NoCap(d) == d * 2

NextDelay(d) == IF d * 2 > cfg.MaxDelay THEN cfg.MaxDelay ELSE d * 2

\* select: case <-time.After(delay): delay *= 2, capped; then attempt++
SelectTimer ==
    /\ rpc = "wait"
    /\ timerFired
    /\ waits' = Append(waits, delay)
    /\ delay' = NextDelay(delay)
    /\ LoopHead(attempt + 1, lastErr)
    /\ UNCHANGED <<cfg, outcomes, timerFired, cancelInWait, cancelAt, cancelled, batchVars, auxVars>>

\* a caller starts the call
WithRetryCall ==
    /\ rpc = "idle"
    /\ rpc' = "start"
    /\ UNCHANGED <<cfg, attempt, delay, lastErr, ret, exitPath, outcomes, waits,
                   timerFired, cancelInWait, cancelAt, cancelled, batchVars, auxVars>>

\* the owner of ctx cancels it (or its deadline passes), before the call
\* starts or while it runs
CancelRetry ==
    /\ rpc \in {"idle", "start", "direct", "call", "wait"}
    /\ ~cancelled
    /\ cancelled' = TRUE
    /\ cancelInWait' = (rpc = "wait" /\ ~timerFired)
    /\ cancelAt' = [fns |-> Len(outcomes), waits |-> Len(waits),
                    timerFired |-> (rpc = "wait" /\ timerFired), late |-> FALSE]
    /\ UNCHANGED <<cfg, rpc, attempt, delay, lastErr, ret, exitPath, outcomes, waits,
                   timerFired, batchVars, auxVars>>

(***************************************************************************)
(* The retry layer on its own: one WithRetry call under every configuration *)
(***************************************************************************)
\* res holds no value before the call and <<value>> after it
NoRes == <<>>

PureIdle == fn = "none" /\ arg = <<>> /\ res = NoRes
AwsIdle == clock = 0 /\ awsCalls = <<>>
CmdIdle == cmd = [pc |-> "idle"]
ListIdle == lst = [pc |-> "idle"]
FlatIdle == flat = [pc |-> "idle"]
CbkIdle == cbk = [pc |-> "idle"]
AuxIdle == PureIdle /\ AwsIdle /\ CmdIdle /\ ListIdle /\ FlatIdle /\ CbkIdle

BatchIdle ==
    /\ config = <<>> /\ mode = "none" /\ maxConcurrency = 0
    /\ apiZoneFail = {} /\ apiRecFail = {}
    /\ mpc = "idle" /\ zoneIdx = 0
    /\ result = <<>>
    /\ tpc = <<>> /\ zwork = <<>>
    /\ semaphore = 0 /\ wg = 0
    /\ resolveCalls = <<>> /\ createCalls = <<>>

InitRetry ==
    /\ cfg \in Configs
    /\ RetryIdle
    /\ cancelled = FALSE
    /\ BatchIdle
    /\ AuxIdle

NextRetry ==
    \/ WithRetryCall
    \/ WithRetryEnter
    \/ DirectCall
    \/ InvokeFn
    \/ TimerFire
    \/ SelectCtxDone
    \/ SelectTimer
    \/ CancelRetry

SpecRetry == InitRetry /\ [][NextRetry]_vars

(***************************************************************************)
(* The DNS batch engine: plan, provider outcomes                            *)
(***************************************************************************)
ZonePool == <<"a.com", "b.com", "c.com", "d.com">>

RecordCfg(j) ==
    [Type    |-> IF j % 2 = 1 THEN "A" ELSE "CNAME",
     Name    |-> "r" \o ToString(j),
     Content |-> IF j % 2 = 1 THEN "192.0.2.1" ELSE "target.example.com"]

\* DNSZoneConfig of the i-th zone with n records
ZoneCfg(i, n) == [Zone |-> ZonePool[i], Records |-> [j \in 1..n |-> RecordCfg(j)]]

RECURSIVE SumTo(_, _)
SumTo(f, n) == IF n = 0 THEN 0 ELSE f[n] + SumTo(f, n - 1)

\* validated plans (Validate: at least one zone, at least one record per zone)
Plans ==
    UNION { { [i \in 1..n |-> ZoneCfg(i, cnt[i])] :
                cnt \in { c \in [1..n -> 1..MaxRecords] : SumTo(c, n) <= MaxPlanRecords } }
            : n \in 1..MaxZones }

ZoneIDOf(name) == "id-" \o name

\* the keys of the CreateDNSRecord calls a plan can make for zones that resolve
RecordKeys(plan, zfail) ==
    UNION { { <<ZoneIDOf(plan[i].Zone), plan[i].Records[j].Name>> :
                j \in 1..Len(plan[i].Records) }
            : i \in { k \in 1..Len(plan) : plan[k].Zone \notin zfail } }

NumZones == Len(config)
NumRecords(i) == Len(config[i].Records)

\* GetZoneByName(ctx, name): the results the call can have.  The provider
\* answers as apiZoneFail says; a cancelled ctx can make the call fail.
ZoneNotFound(name) == CfErr(ErrorTypeNotFound, "find zone", "resource not found: " \o name)
GetZoneByName(name) ==
    (IF name \in apiZoneFail
     THEN { [err |-> ZoneNotFound(name), id |-> ""] }
     ELSE { [err |-> NilErr, id |-> ZoneIDOf(name)] })
    \cup (IF cancelled THEN { [err |-> CtxErr, id |-> ""] } ELSE {})

\* CreateDNSRecord(ctx, zoneID, params): the results the call can have
RecordConflict(name) == CfErr(ErrorTypeConflict, OpName, "record already exists: " \o name)
CreateDNSRecord(zoneID, params) ==
    (IF <<zoneID, params.Name>> \in apiRecFail
     THEN { [err |-> RecordConflict(params.Name), id |-> ""] }
     ELSE { [err |-> NilErr, id |-> "rec-" \o zoneID \o "-" \o params.Name] })
    \cup (IF cancelled THEN { [err |-> CtxErr, id |-> ""] } ELSE {})

(***************************************************************************)
(* Result values                                                            *)
(***************************************************************************)
\* the zero value of DNSZoneResult
ZeroZoneResult ==
    [Zone |-> "", Success |-> FALSE, TotalRecords |-> 0, SuccessRecords |-> 0,
     FailedRecords |-> 0, RecordResults |-> <<>>, Error |-> NilErr]

\* result := &DNSBatchResult{...} followed by the loop that sums len(zone.Records)
NewBatchResult(zoneResults) ==
    [TotalZones |-> NumZones,
     TotalRecords |-> SumTo([i \in 1..NumZones |-> NumRecords(i)], NumZones),
     SuccessZones |-> 0, SuccessRecords |-> 0, FailedZones |-> 0, FailedRecords |-> 0,
     ZoneResults |-> zoneResults,
     StartTime |-> "set", EndTime |-> "zero", Duration |-> "zero"]

\* counter updates that skip the record counters of a failed zone
AddZone_SkipsFailedZoneRecords(r, zr) ==
    [r EXCEPT !.SuccessZones   = IF zr.Success THEN @ + 1 ELSE @,
              !.FailedZones    = IF zr.Success THEN @ ELSE @ + 1,
              !.SuccessRecords = IF zr.Success THEN @ + zr.SuccessRecords ELSE @,
              !.FailedRecords  = IF zr.Success THEN @ + zr.FailedRecords ELSE @]

\* the four counter updates made for one zone result
AddZone(r, zr) ==
    [r EXCEPT !.SuccessZones   = IF zr.Success THEN @ + 1 ELSE @,
              !.FailedZones    = IF zr.Success THEN @ ELSE @ + 1,
              !.SuccessRecords = @ + zr.SuccessRecords,
              !.FailedRecords  = @ + zr.FailedRecords]

\* result.EndTime = time.Now(); result.Duration = EndTime.Sub(StartTime)
Finish(r) == [r EXCEPT !.EndTime = "set", !.Duration = "set"]

\* processRecord: the DNSRecordResult for the outcome o of CreateDNSRecord
processRecord(recordConfig, o) ==
    [Type |-> recordConfig.Type, Name |-> recordConfig.Name,
     Content |-> recordConfig.Content,
     Success |-> (o.err = NilErr),
     Error |-> o.err,
     RecordID |-> IF o.err = NilErr THEN o.id ELSE ""]

(***************************************************************************)
(* processZone, shared by both batch functions; i is the index of the zone  *)
(***************************************************************************)
\* entry of processZone(ctx, config.Zones[i], progressCallback): result := ...
EnterProcessZone(i) ==
    /\ zwork' = [zwork EXCEPT ![i] =
                   [result |-> [ZeroZoneResult EXCEPT !.Zone = config[i].Zone,
                                                      !.TotalRecords = NumRecords(i)],
                    zoneID |-> "", err |-> NilErr]]
    /\ tpc' = [tpc EXCEPT ![i] = "resolve"]

\* a processZone that goes on to the records after a failed resolution
PZResolve_NoEarlyReturn(i) ==
    /\ tpc[i] = "resolve"
    /\ \E o \in GetZoneByName(config[i].Zone) :
         /\ resolveCalls' = [resolveCalls EXCEPT ![i] = @ + 1]
         /\ zwork' = [zwork EXCEPT ![i].err = o.err, ![i].zoneID = o.id,
                                   ![i].result.Error = o.err]
         /\ tpc' = [tpc EXCEPT ![i] = "record"]
    /\ UNCHANGED <<config, mode, maxConcurrency, apiZoneFail, apiRecFail, mpc, zoneIdx,
                   result, semaphore, wg, createCalls, cancelled, retryVars, auxVars>>

\* zone, err := c.GetZoneByName(ctx, zoneConfig.Zone) and the early return
PZResolve(i) ==
    /\ tpc[i] = "resolve"
    /\ \E o \in GetZoneByName(config[i].Zone) :
         /\ resolveCalls' = [resolveCalls EXCEPT ![i] = @ + 1]
         /\ IF o.err # NilErr
            THEN /\ zwork' = [zwork EXCEPT ![i].err = o.err, ![i].result =
                                [@ EXCEPT !.Success = FALSE,
                                          !.Error = o.err,
                                          !.FailedRecords = zwork[i].result.TotalRecords]]
                 /\ tpc' = [tpc EXCEPT ![i] = "pzret"]
            ELSE IF NumRecords(i) = 0
            THEN /\ zwork' = [zwork EXCEPT ![i].zoneID = o.id,
                                           ![i].result.Success = (zwork[i].result.FailedRecords = 0)]
                 /\ tpc' = [tpc EXCEPT ![i] = "pzret"]
            ELSE /\ zwork' = [zwork EXCEPT ![i].zoneID = o.id]
                 /\ tpc' = [tpc EXCEPT ![i] = "record"]
    /\ UNCHANGED <<config, mode, maxConcurrency, apiZoneFail, apiRecFail, mpc, zoneIdx,
                   result, semaphore, wg, createCalls, cancelled, retryVars, auxVars>>

\* a record loop that stops at the first failed record
PZRecord_FailFast(i) ==
    /\ tpc[i] = "record"
    /\ LET j == Len(zwork[i].result.RecordResults) + 1
       IN  \E o \in CreateDNSRecord(zwork[i].zoneID, config[i].Records[j]) :
             LET rr == processRecord(config[i].Records[j], o)
                 r1 == [zwork[i].result EXCEPT
                          !.RecordResults = Append(@, rr),
                          !.SuccessRecords = IF rr.Success THEN @ + 1 ELSE @,
                          !.FailedRecords = IF rr.Success THEN @
                                            ELSE zwork[i].result.TotalRecords - (j - 1)]
                 last == (j = NumRecords(i)) \/ ~rr.Success
             IN  /\ createCalls' = [createCalls EXCEPT ![i][j] = @ + 1]
                 /\ zwork' = [zwork EXCEPT ![i].result =
                                IF last THEN [r1 EXCEPT !.Success = (r1.FailedRecords = 0)]
                                ELSE r1]
                 /\ tpc' = [tpc EXCEPT ![i] = IF last THEN "pzret" ELSE "record"]
    /\ UNCHANGED <<config, mode, maxConcurrency, apiZoneFail, apiRecFail, mpc, zoneIdx,
                   result, semaphore, wg, resolveCalls, cancelled, retryVars, auxVars>>

\* a record loop that walks the records from the last to the first
PZRecord_LastFirst(i) ==
    /\ tpc[i] = "record"
    /\ LET j == NumRecords(i) - Len(zwork[i].result.RecordResults)
       IN  \E o \in CreateDNSRecord(zwork[i].zoneID, config[i].Records[j]) :
             LET rr == processRecord(config[i].Records[j], o)
                 r1 == [zwork[i].result EXCEPT
                          !.RecordResults = Append(@, rr),
                          !.SuccessRecords = IF rr.Success THEN @ + 1 ELSE @,
                          !.FailedRecords = IF rr.Success THEN @ ELSE @ + 1]
                 last == (j = 1)
             IN  /\ createCalls' = [createCalls EXCEPT ![i][j] = @ + 1]
                 /\ zwork' = [zwork EXCEPT ![i].result =
                                IF last THEN [r1 EXCEPT !.Success = (r1.FailedRecords = 0)]
                                ELSE r1]
                 /\ tpc' = [tpc EXCEPT ![i] = IF last THEN "pzret" ELSE "record"]
    /\ UNCHANGED <<config, mode, maxConcurrency, apiZoneFail, apiRecFail, mpc, zoneIdx,
                   result, semaphore, wg, resolveCalls, cancelled, retryVars, auxVars>>

\* a record loop whose zone succeeds as soon as one record succeeded
PZRecord_SuccessIfAny(i) ==
    /\ tpc[i] = "record"
    /\ LET j == Len(zwork[i].result.RecordResults) + 1
       IN  \E o \in CreateDNSRecord(zwork[i].zoneID, config[i].Records[j]) :
             LET rr == processRecord(config[i].Records[j], o)
                 r1 == [zwork[i].result EXCEPT
                          !.RecordResults = Append(@, rr),
                          !.SuccessRecords = IF rr.Success THEN @ + 1 ELSE @,
                          !.FailedRecords = IF rr.Success THEN @ ELSE @ + 1]
                 last == (j = NumRecords(i))
             IN  /\ createCalls' = [createCalls EXCEPT ![i][j] = @ + 1]
                 /\ zwork' = [zwork EXCEPT ![i].result =
                                IF last THEN [r1 EXCEPT !.Success = (r1.SuccessRecords > 0)]
                                ELSE r1]
                 /\ tpc' = [tpc EXCEPT ![i] = IF last THEN "pzret" ELSE "record"]
    /\ UNCHANGED <<config, mode, maxConcurrency, apiZoneFail, apiRecFail, mpc, zoneIdx,
                   result, semaphore, wg, resolveCalls, cancelled, retryVars, auxVars>>

\* one iteration of the record loop: callback, processRecord, append, count;
\* after the last record: result.Success = result.FailedRecords == 0; return
PZRecord(i) ==
    /\ tpc[i] = "record"
    /\ LET j == Len(zwork[i].result.RecordResults) + 1
       IN  \E o \in CreateDNSRecord(zwork[i].zoneID, config[i].Records[j]) :
             LET rr == processRecord(config[i].Records[j], o)
                 r1 == [zwork[i].result EXCEPT
                          !.RecordResults = Append(@, rr),
                          !.SuccessRecords = IF rr.Success THEN @ + 1 ELSE @,
                          !.FailedRecords = IF rr.Success THEN @ ELSE @ + 1]
                 last == (j = NumRecords(i))
             IN  /\ createCalls' = [createCalls EXCEPT ![i][j] = @ + 1]
                 /\ zwork' = [zwork EXCEPT ![i].result =
                                IF last THEN [r1 EXCEPT !.Success = (r1.FailedRecords = 0)]
                                ELSE r1]
                 /\ tpc' = [tpc EXCEPT ![i] = IF last THEN "pzret" ELSE "record"]
    /\ UNCHANGED <<config, mode, maxConcurrency, apiZoneFail, apiRecFail, mpc, zoneIdx,
                   result, semaphore, wg, resolveCalls, cancelled, retryVars, auxVars>>

(***************************************************************************)
(* BatchCreateDNSRecords (sequential)                                       *)
(***************************************************************************)
\* entry: result with TotalZones/TotalRecords, empty ZoneResults
SeqEnter ==
    /\ mode = "seq" /\ mpc = "start"
    /\ result' = NewBatchResult(<<>>)
    /\ zoneIdx' = 1
    /\ mpc' = "seq_loop"
    /\ UNCHANGED <<config, mode, maxConcurrency, apiZoneFail, apiRecFail, tpc, zwork,
                   semaphore, wg, resolveCalls, createCalls, cancelled, retryVars, auxVars>>

\* loop body up to the call of processZone (the zone's progress callback first)
SeqNextZone ==
    /\ mpc = "seq_loop" /\ zoneIdx <= NumZones
    /\ EnterProcessZone(zoneIdx)
    /\ mpc' = "seq_zone"
    /\ UNCHANGED <<config, mode, maxConcurrency, apiZoneFail, apiRecFail, zoneIdx, result,
                   semaphore, wg, resolveCalls, createCalls, cancelled, retryVars, auxVars>>

\* processZone returned: append the zone result and update the counters
SeqAfterZone ==
    /\ mpc = "seq_zone" /\ tpc[zoneIdx] = "pzret"
    /\ LET zoneResult == zwork[zoneIdx].result
       IN  result' = AddZone([result EXCEPT !.ZoneResults = Append(@, zoneResult)],
                             zoneResult)
    /\ tpc' = [tpc EXCEPT ![zoneIdx] = "finished"]
    /\ zoneIdx' = zoneIdx + 1
    /\ mpc' = "seq_loop"
    /\ UNCHANGED <<config, mode, maxConcurrency, apiZoneFail, apiRecFail, zwork,
                   semaphore, wg, resolveCalls, createCalls, cancelled, retryVars, auxVars>>

\* after the loop: EndTime, Duration, return result
SeqReturn ==
    /\ mpc = "seq_loop" /\ zoneIdx > NumZones
    /\ result' = Finish(result)
    /\ mpc' = "returned"
    /\ UNCHANGED <<config, mode, maxConcurrency, apiZoneFail, apiRecFail, zoneIdx, tpc,
                   zwork, semaphore, wg, resolveCalls, createCalls, cancelled, retryVars, auxVars>>

(***************************************************************************)
(* BatchCreateDNSRecordsConcurrent                                          *)
(***************************************************************************)
\* entry: result with a pre-sized ZoneResults; semaphore := make(chan, maxConcurrency)
ConEnter ==
    /\ mode = "con" /\ mpc = "start"
    /\ result' = NewBatchResult([i \in 1..NumZones |-> ZeroZoneResult])
    /\ zoneIdx' = 1
    /\ semaphore' = 0
    /\ wg' = 0
    /\ mpc' = "con_spawn"
    /\ UNCHANGED <<config, mode, maxConcurrency, apiZoneFail, apiRecFail, tpc, zwork,
                   resolveCalls, createCalls, cancelled, retryVars, auxVars>>

\* one iteration of the spawn loop: wg.Add(1); go func(idx, cfg) {...}(i, zoneConfig)
ConSpawn ==
    /\ mpc = "con_spawn" /\ zoneIdx <= NumZones
    /\ wg' = wg + 1
    /\ tpc' = [tpc EXCEPT ![zoneIdx] = "spawned"]
    /\ zoneIdx' = zoneIdx + 1
    /\ UNCHANGED <<config, mode, maxConcurrency, apiZoneFail, apiRecFail, mpc, result,
                   zwork, semaphore, resolveCalls, createCalls, cancelled, retryVars, auxVars>>

\* the spawn loop ends; the function blocks in wg.Wait()
ConSpawned ==
    /\ mpc = "con_spawn" /\ zoneIdx > NumZones
    /\ mpc' = "con_wait"
    /\ UNCHANGED <<config, mode, maxConcurrency, apiZoneFail, apiRecFail, zoneIdx, result,
                   tpc, zwork, semaphore, wg, resolveCalls, createCalls, cancelled,
                   retryVars, auxVars>>

\* a goroutine that enters without waiting for room in the semaphore
TaskAcquire_Unbounded(i) ==
    /\ tpc[i] = "spawned"
    /\ semaphore' = semaphore + 1
    /\ EnterProcessZone(i)
    /\ UNCHANGED <<config, mode, maxConcurrency, apiZoneFail, apiRecFail, mpc, zoneIdx,
                   result, wg, resolveCalls, createCalls, cancelled, retryVars, auxVars>>

\* goroutine: semaphore <- struct{}{} (blocks while the channel is full; an
\* unbuffered channel never accepts the send, nobody receives), then the
\* zone's progress callback and the entry of processZone
TaskAcquire(i) ==
    /\ tpc[i] = "spawned"
    /\ semaphore < maxConcurrency
    /\ semaphore' = semaphore + 1
    /\ EnterProcessZone(i)
    /\ UNCHANGED <<config, mode, maxConcurrency, apiZoneFail, apiRecFail, mpc, zoneIdx,
                   result, wg, resolveCalls, createCalls, cancelled, retryVars, auxVars>>

\* a goroutine that appends its result in completion order
TaskStore_Appends(i) ==
    /\ mode = "con" /\ tpc[i] = "pzret"
    /\ result' = [result EXCEPT !.ZoneResults =
                    LET done == Cardinality({ k \in 1..NumZones :
                                              tpc[k] \in {"stored", "released", "finished"} })
                    IN  [@ EXCEPT ![done + 1] = zwork[i].result]]
    /\ tpc' = [tpc EXCEPT ![i] = "stored"]
    /\ UNCHANGED <<config, mode, maxConcurrency, apiZoneFail, apiRecFail, mpc, zoneIdx,
                   zwork, semaphore, wg, resolveCalls, createCalls, cancelled, retryVars, auxVars>>

\* goroutine: result.ZoneResults[idx] = <value returned by processZone>
TaskStore(i) ==
    /\ mode = "con" /\ tpc[i] = "pzret"
    /\ result' = [result EXCEPT !.ZoneResults[i] = zwork[i].result]
    /\ tpc' = [tpc EXCEPT ![i] = "stored"]
    /\ UNCHANGED <<config, mode, maxConcurrency, apiZoneFail, apiRecFail, mpc, zoneIdx,
                   zwork, semaphore, wg, resolveCalls, createCalls, cancelled, retryVars, auxVars>>

\* goroutine, deferred: <-semaphore
TaskRelease(i) ==
    /\ tpc[i] = "stored"
    /\ semaphore' = semaphore - 1
    /\ tpc' = [tpc EXCEPT ![i] = "released"]
    /\ UNCHANGED <<config, mode, maxConcurrency, apiZoneFail, apiRecFail, mpc, zoneIdx,
                   result, zwork, wg, resolveCalls, createCalls, cancelled, retryVars, auxVars>>

\* goroutine, deferred: wg.Done()
TaskDone(i) ==
    /\ tpc[i] = "released"
    /\ wg' = wg - 1
    /\ tpc' = [tpc EXCEPT ![i] = "finished"]
    /\ UNCHANGED <<config, mode, maxConcurrency, apiZoneFail, apiRecFail, mpc, zoneIdx,
                   result, zwork, semaphore, resolveCalls, createCalls, cancelled,
                   retryVars, auxVars>>

\* the aggregation loop over result.ZoneResults
RECURSIVE Aggregate(_, _, _)
Aggregate(r, zrs, k) ==
    IF k > Len(zrs) THEN r ELSE Aggregate(AddZone(r, zrs[k]), zrs, k + 1)

\* an aggregation loop that starts one slot too late
ConWaitReturn_SkipsFirstSlot ==
    /\ mpc = "con_wait"
    /\ wg = 0
    /\ result' = Finish(Aggregate(result, result.ZoneResults, 2))
    /\ mpc' = "returned"
    /\ UNCHANGED <<config, mode, maxConcurrency, apiZoneFail, apiRecFail, zoneIdx, tpc,
                   zwork, semaphore, wg, resolveCalls, createCalls, cancelled, retryVars, auxVars>>

\* an aggregation that does not wait for the zone tasks
ConWaitReturn_NoWait ==
    /\ mpc = "con_wait"
    /\ result' = Finish(Aggregate(result, result.ZoneResults, 1))
    /\ mpc' = "returned"
    /\ UNCHANGED <<config, mode, maxConcurrency, apiZoneFail, apiRecFail, zoneIdx, tpc,
                   zwork, semaphore, wg, resolveCalls, createCalls, cancelled, retryVars, auxVars>>

\* wg.Wait() returns; aggregate, set EndTime and Duration, return result
ConWaitReturn ==
    /\ mpc = "con_wait"
    /\ wg = 0
    /\ result' = Finish(Aggregate(result, result.ZoneResults, 1))
    /\ mpc' = "returned"
    /\ UNCHANGED <<config, mode, maxConcurrency, apiZoneFail, apiRecFail, zoneIdx, tpc,
                   zwork, semaphore, wg, resolveCalls, createCalls, cancelled, retryVars, auxVars>>

\* the owner of ctx cancels it during the run
CancelBatch ==
    /\ mpc \notin {"idle", "returned"}
    /\ ~cancelled
    /\ cancelled' = TRUE
    /\ UNCHANGED <<batchVars, retryVars, auxVars>>

(***************************************************************************)
(* The batch engine: one run of either function over every plan             *)
(***************************************************************************)
\* the two entry points with the concurrency limit they are given
Modes ==
    { [mode |-> "seq", maxConcurrency |-> 1] } \cup
    { [mode |-> "con", maxConcurrency |-> c] : c \in 0..MaxConcurrencyBound }

InitBatch ==
    /\ config \in Plans
    /\ \E m \in Modes : mode = m.mode /\ maxConcurrency = m.maxConcurrency
    /\ apiZoneFail \in SUBSET { config[i].Zone : i \in 1..Len(config) }
    /\ apiRecFail \in SUBSET RecordKeys(config, apiZoneFail)
    /\ mpc = "start" /\ zoneIdx = 0
    /\ result = <<>>
    /\ tpc = [i \in 1..Len(config) |-> "none"]
    /\ zwork = [i \in 1..Len(config) |->
                  [result |-> ZeroZoneResult, zoneID |-> "", err |-> NilErr]]
    /\ semaphore = 0 /\ wg = 0
    /\ resolveCalls = [i \in 1..Len(config) |-> 0]
    /\ createCalls = [i \in 1..Len(config) |-> [j \in 1..Len(config[i].Records) |-> 0]]
    /\ cancelled = FALSE
    /\ cfg = NoConfig
    /\ RetryIdle
    /\ AuxIdle

NextBatch ==
    \/ SeqEnter
    \/ SeqNextZone
    \/ SeqAfterZone
    \/ SeqReturn
    \/ ConEnter
    \/ ConSpawn
    \/ ConSpawned
    \/ \E i \in 1..NumZones : TaskAcquire(i)
    \/ \E i \in 1..NumZones : PZResolve(i)
    \/ \E i \in 1..NumZones : PZRecord(i)
    \/ \E i \in 1..NumZones : TaskStore(i)
    \/ \E i \in 1..NumZones : TaskRelease(i)
    \/ \E i \in 1..NumZones : TaskDone(i)
    \/ ConWaitReturn
    \/ CancelBatch

SpecBatch == InitBatch /\ [][NextBatch]_vars

(***************************************************************************)
(* Properties of the retry layer                                            *)
(***************************************************************************)
Min(a, b) == IF a <= b THEN a ELSE b

RetryEnabled == cfg.Present /\ cfg.Enabled

\* index of the first invocation of fn that succeeded, 0 when none did
FirstSuccess ==
    IF \E i \in 1..Len(outcomes) : outcomes[i] = NilErr
    THEN CHOOSE i \in 1..Len(outcomes) :
            /\ outcomes[i] = NilErr
            /\ \A j \in 1..(i - 1) : outcomes[j] # NilErr
    ELSE 0

\* C1: with retry enabled, maxAttempts = N >= 1 and no cancellation, a finished
\* WithRetry has invoked fn exactly min(k, N) times, k the index of the first
\* successful invocation (none: N times), whatever errors fn returned, and it
\* returns nil exactly when an invocation succeeded.
C1_InvocationCount ==
    (rpc = "done" /\ RetryEnabled /\ cfg.MaxAttempts >= 1 /\ ~cancelled) =>
        /\ Len(outcomes) = (IF FirstSuccess = 0 THEN cfg.MaxAttempts
                            ELSE Min(FirstSuccess, cfg.MaxAttempts))
        /\ (ret = NilErr) <=> (FirstSuccess # 0)

C1_Witness ==
    /\ rpc = "done" /\ RetryEnabled /\ ~cancelled
    /\ cfg.MaxAttempts = 3
    /\ Len(outcomes) = 3
    /\ FirstSuccess = 0
    /\ outcomes[1].kind = "cf" /\ outcomes[1].type = ErrorTypeValidation
    /\ outcomes[2].kind = "plain"
    /\ ret # NilErr

\* C6: when ctx is cancelled while WithRetry waits in the backoff select and the
\* delay has not elapsed, the step that leaves the select returns ctx.Err()
\* without a further invocation of fn and without a completed wait, so fewer
\* than maxAttempts invocations have happened.
C6_CancelDuringBackoff ==
    [][ (rpc = "wait" /\ cancelled /\ ~timerFired /\ rpc' # "wait") =>
            /\ rpc' = "done"
            /\ ret' = CtxErr
            /\ outcomes' = outcomes
            /\ waits' = waits
            /\ Len(outcomes') < cfg.MaxAttempts ]_vars

C6_Witness ==
    /\ rpc = "done" /\ exitPath = "cancel"
    /\ cancelInWait /\ ~timerFired
    /\ ret = CtxErr
    /\ Len(outcomes) = 1 /\ cfg.MaxAttempts = 3

\* C9: every failure returned by WithRetry is a classified error carrying a
\* category and the operation name, on every exit path.
C9_AllFailuresClassified ==
    (rpc = "done" /\ ret # NilErr) => (IsClassified(ret) /\ ret.op # "")

\* C10: with retry disabled WithRetry invokes fn exactly once, never waits, and
\* returns nil on success and fn's error wrapped as a classified error on failure.
C10_DisabledPath ==
    (rpc = "done" /\ ~RetryEnabled) =>
        /\ Len(outcomes) = 1
        /\ waits = <<>>
        /\ ret = WrapError(outcomes[1], OpName)

(***************************************************************************)
(* Properties of the batch engine                                           *)
(***************************************************************************)
Returned == mpc = "returned"

\* zones whose goroutine has written its result slot
Stored == { i \in 1..NumZones : tpc[i] \in {"stored", "released", "finished"} }

\* zones whose processing is between the semaphore send and the receive
InsideSemaphore == { i \in 1..NumZones : tpc[i] \in {"resolve", "record", "pzret", "stored"} }

\* zones whose processZone has returned
ZoneProcessed(i) == tpc[i] \in {"pzret", "stored", "released", "finished"}

\* C2: the report of either batch function has exactly N zone results and the
\* i-th one is the result of the i-th zone of the plan, whatever the order in
\* which the zone tasks ran and completed; a slot written early already
\* belongs to its own zone.
C2_ZoneOrderPreserved ==
    /\ Returned =>
         /\ Len(result.ZoneResults) = NumZones
         /\ \A i \in 1..NumZones : result.ZoneResults[i].Zone = config[i].Zone
    /\ (mode = "con" /\ mpc \in {"con_spawn", "con_wait"}) =>
         /\ Len(result.ZoneResults) = NumZones
         /\ \A i \in Stored : result.ZoneResults[i].Zone = config[i].Zone

C2_Witness ==
    /\ Returned /\ mode = "con" /\ maxConcurrency = 2
    /\ NumZones = 2
    /\ result.ZoneResults[1].Zone = "a.com" /\ result.ZoneResults[2].Zone = "b.com"
    /\ result.ZoneResults[1].Success /\ ~result.ZoneResults[2].Success

\* C3: in every returned report, cancelled run or not, the top-level counters
\* are the sums of the per-zone counters, SuccessRecords + FailedRecords =
\* TotalRecords and SuccessZones + FailedZones = TotalZones.
C3_CounterReduction ==
    Returned =>
        LET zrs == result.ZoneResults
            n == Len(zrs)
        IN  /\ result.TotalRecords = SumTo([i \in 1..n |-> zrs[i].TotalRecords], n)
            /\ result.SuccessRecords = SumTo([i \in 1..n |-> zrs[i].SuccessRecords], n)
            /\ result.FailedRecords = SumTo([i \in 1..n |-> zrs[i].FailedRecords], n)
            /\ result.SuccessRecords + result.FailedRecords = result.TotalRecords
            /\ result.SuccessZones + result.FailedZones = result.TotalZones

C3_Witness ==
    /\ Returned /\ cancelled
    /\ NumZones = 2
    /\ result.TotalRecords = 4
    /\ result.SuccessRecords = 1 /\ result.FailedRecords = 3
    /\ result.SuccessZones = 0 /\ result.FailedZones = 2
    /\ result.ZoneResults[1].Error = NilErr
    /\ result.ZoneResults[2].Error = CtxErr

\* C4: when GetZoneByName failed for a zone with M records, processZone made no
\* CreateDNSRecord call for it and its result has Success = false, Error = the
\* resolution error, FailedRecords = M and SuccessRecords = 0.
C4_ResolutionFailureShortCircuits ==
    \A i \in 1..NumZones :
        (ZoneProcessed(i) /\ zwork[i].err # NilErr) =>
            /\ \A j \in 1..NumRecords(i) : createCalls[i][j] = 0
            /\ zwork[i].result.Success = FALSE
            /\ zwork[i].result.Error = zwork[i].err
            /\ zwork[i].result.FailedRecords = NumRecords(i)
            /\ zwork[i].result.SuccessRecords = 0

C4_Witness ==
    /\ Returned
    /\ NumZones = 2 /\ NumRecords(1) = 2
    /\ zwork[1].err = ZoneNotFound("a.com")
    /\ result.ZoneResults[1].FailedRecords = 2
    /\ result.ZoneResults[1].Error = ZoneNotFound("a.com")
    /\ createCalls[1] = <<0, 0>>
    /\ zwork[2].err = NilErr

\* C5: a batch run never stops early: when it returns, every zone was resolved
\* once and, for every zone that resolved, every record was created exactly
\* once (no call is ever made twice), whatever failed before.
C5_NoFailFast ==
    /\ \A i \in 1..NumZones :
         /\ resolveCalls[i] <= 1
         /\ \A j \in 1..NumRecords(i) : createCalls[i][j] <= 1
    /\ Returned =>
         \A i \in 1..NumZones :
             /\ resolveCalls[i] = 1
             /\ zwork[i].err = NilErr =>
                    /\ \A j \in 1..NumRecords(i) : createCalls[i][j] = 1
                    /\ Len(result.ZoneResults[i].RecordResults) = NumRecords(i)

C5_Witness ==
    /\ Returned /\ ~cancelled
    /\ NumZones = 2 /\ NumRecords(2) = 2
    /\ zwork[1].err # NilErr
    /\ zwork[2].err = NilErr
    /\ ~result.ZoneResults[2].RecordResults[1].Success
    /\ result.ZoneResults[2].RecordResults[2].Success
    /\ createCalls[2] = <<1, 1>>

\* C7: in the concurrent function with maxConcurrency = C >= 1, at most C zone
\* tasks are between acquiring and releasing the semaphore at any moment.
C7_BoundedConcurrency ==
    (mode = "con" /\ maxConcurrency >= 1) =>
        /\ Cardinality(InsideSemaphore) <= maxConcurrency
        /\ semaphore = Cardinality(InsideSemaphore)

C7_Witness ==
    /\ mode = "con" /\ maxConcurrency = 1
    /\ NumZones = 2
    /\ tpc[1] = "spawned"
    /\ tpc[2] = "record"

\* the report a deterministic provider determines for the plan
ExpectedRecord(i, j) ==
    LET rc == config[i].Records[j]
        ok == <<ZoneIDOf(config[i].Zone), rc.Name>> \notin apiRecFail
    IN  [Type |-> rc.Type, Name |-> rc.Name, Content |-> rc.Content,
         Success |-> ok,
         Error |-> IF ok THEN NilErr ELSE RecordConflict(rc.Name),
         RecordID |-> IF ok THEN "rec-" \o ZoneIDOf(config[i].Zone) \o "-" \o rc.Name ELSE ""]

ExpectedZone(i) ==
    LET n == NumRecords(i)
        failing == { j \in 1..n : ~ExpectedRecord(i, j).Success }
    IN  IF config[i].Zone \in apiZoneFail
        THEN [Zone |-> config[i].Zone, Success |-> FALSE, TotalRecords |-> n,
              SuccessRecords |-> 0, FailedRecords |-> n, RecordResults |-> <<>>,
              Error |-> ZoneNotFound(config[i].Zone)]
        ELSE [Zone |-> config[i].Zone, Success |-> (failing = {}), TotalRecords |-> n,
              SuccessRecords |-> n - Cardinality(failing),
              FailedRecords |-> Cardinality(failing),
              RecordResults |-> [j \in 1..n |-> ExpectedRecord(i, j)],
              Error |-> NilErr]

ExpectedReport ==
    LET zs == [i \in 1..NumZones |-> ExpectedZone(i)]
    IN  [TotalZones |-> NumZones,
         TotalRecords |-> SumTo([i \in 1..NumZones |-> zs[i].TotalRecords], NumZones),
         SuccessZones |-> Cardinality({ i \in 1..NumZones : zs[i].Success }),
         SuccessRecords |-> SumTo([i \in 1..NumZones |-> zs[i].SuccessRecords], NumZones),
         FailedZones |-> Cardinality({ i \in 1..NumZones : ~zs[i].Success }),
         FailedRecords |-> SumTo([i \in 1..NumZones |-> zs[i].FailedRecords], NumZones),
         ZoneResults |-> zs]

\* a report without StartTime, EndTime and Duration
WithoutTimes(r) ==
    [f \in (DOMAIN r) \ {"StartTime", "EndTime", "Duration"} |-> r[f]]

\* C8: with a deterministic provider (fixed outcome per zone and per record, no
\* cancellation) the sequential function and the concurrent function, for any
\* maxConcurrency >= 1, return the one report the plan and the provider
\* determine, so their reports are equal in every field but the times.
C8_SequentialConcurrentEquivalent ==
    (Returned /\ ~cancelled) => WithoutTimes(result) = ExpectedReport

C8_Witness ==
    /\ Returned /\ ~cancelled
    /\ mode = "con" /\ maxConcurrency = 2
    /\ NumZones = 2
    /\ result.FailedZones = 1 /\ result.SuccessZones = 1
    /\ result.FailedRecords = 1 /\ result.SuccessRecords = 2
    /\ ~result.ZoneResults[1].Success
    /\ Len(result.ZoneResults[1].RecordResults) = 2

\* C14: the result processZone returns for a zone has Success = TRUE exactly
\* when GetZoneByName succeeded for the zone and its FailedRecords is 0; the
\* report carries that result unchanged.
C14_ZoneSuccessIff ==
    \A i \in 1..NumZones :
        /\ ZoneProcessed(i) =>
             (zwork[i].result.Success <=>
                (zwork[i].err = NilErr /\ zwork[i].result.FailedRecords = 0))
        /\ Returned =>
             (result.ZoneResults[i].Success <=>
                (zwork[i].err = NilErr /\ result.ZoneResults[i].FailedRecords = 0))

C14_Witness ==
    /\ Returned
    /\ NumZones = 2 /\ NumRecords(1) = 2 /\ NumRecords(2) = 2
    /\ zwork[1].err = NilErr /\ zwork[2].err = NilErr
    /\ result.ZoneResults[1].Success /\ result.ZoneResults[1].FailedRecords = 0
    /\ ~result.ZoneResults[2].Success
    /\ result.ZoneResults[2].SuccessRecords = 1 /\ result.ZoneResults[2].FailedRecords = 1

\* zones whose processZone call is running
InProcessZone == { i \in 1..NumZones : tpc[i] \in {"resolve", "record"} }

\* C16: in BatchCreateDNSRecords at most one zone is being processed at any
\* time, so no two provider calls overlap; a zone is resolved only after every
\* earlier zone was resolved and, if it resolved, had all its records created
\* and its processZone returned; a record is created only after its zone was
\* resolved and the record before it was created.
C16_SequentialPlanOrder ==
    mode = "seq" =>
        /\ Cardinality(InProcessZone) <= 1
        /\ \A i, k \in 1..NumZones :
             (i < k /\ (resolveCalls[k] > 0 \/ tpc[k] # "none")) =>
                 /\ tpc[i] = "finished"
                 /\ resolveCalls[i] = 1
                 /\ zwork[i].err = NilErr =>
                        \A j \in 1..NumRecords(i) : createCalls[i][j] = 1
        /\ \A i \in 1..NumZones : \A j \in 1..NumRecords(i) :
             createCalls[i][j] > 0 =>
                 /\ resolveCalls[i] = 1
                 /\ \A h \in 1..(j - 1) : createCalls[i][h] = 1

C16_Witness ==
    /\ mode = "seq" /\ mpc = "seq_zone"
    /\ NumZones = 2 /\ NumRecords(1) = 2 /\ NumRecords(2) = 2
    /\ tpc[1] = "finished" /\ createCalls[1] = <<1, 1>>
    /\ tpc[2] = "record" /\ createCalls[2] = <<1, 0>>

\* C17: the waits WithRetry has slept through are InitialDelay for the first
\* and min(2 * previous wait, MaxDelay) for every later one; a call that ends
\* after k invocations of fn has waited k - 1 times, so nothing is waited after
\* the last attempt; with MaxAttempts = 3, InitialDelay = 1, MaxDelay = 4 and
\* an fn that always fails the waits are 1 then 2.
C17_BackoffSchedule ==
    RetryEnabled =>
        /\ \A r \in 1..Len(waits) :
             waits[r] = IF r = 1 THEN cfg.InitialDelay
                        ELSE Min(2 * waits[r - 1], cfg.MaxDelay)
        /\ (rpc = "done" /\ Len(outcomes) > 0) => Len(waits) = Len(outcomes) - 1
        /\ (rpc = "done" /\ exitPath = "exhausted" /\ cfg.MaxAttempts >= 1) =>
             Len(waits) = cfg.MaxAttempts - 1
        /\ (rpc = "done" /\ exitPath = "exhausted" /\ cfg.MaxAttempts = 3
                /\ cfg.InitialDelay = 1 /\ cfg.MaxDelay = 4) =>
             waits = <<1, 2>>

C17_Witness ==
    /\ RetryEnabled /\ rpc = "done" /\ exitPath = "exhausted"
    /\ cfg.MaxAttempts = 3 /\ cfg.InitialDelay = 1 /\ cfg.MaxDelay = 4
    /\ Len(outcomes) = 3
    /\ waits = <<1, 2>>

\* C18: while zone tasks of BatchCreateDNSRecordsConcurrent may still run, the
\* four counters of the report are 0 and EndTime and Duration are unset, so no
\* zone task writes them; once the function has returned every zone task has
\* finished and the report holds the slot each task wrote.
C18_AggregationAfterJoin ==
    mode = "con" =>
        /\ mpc \in {"con_spawn", "con_wait"} =>
             /\ result.SuccessZones = 0 /\ result.FailedZones = 0
             /\ result.SuccessRecords = 0 /\ result.FailedRecords = 0
             /\ result.EndTime = "zero" /\ result.Duration = "zero"
        /\ Returned =>
             /\ wg = 0
             /\ \A i \in 1..NumZones :
                  /\ tpc[i] = "finished"
                  /\ result.ZoneResults[i] = zwork[i].result
             /\ result.EndTime = "set" /\ result.Duration = "set"

C18_Witness ==
    /\ mode = "con" /\ mpc = "con_wait"
    /\ NumZones = 2
    /\ tpc[1] = "finished" /\ tpc[2] = "record"
    /\ result.ZoneResults[1].FailedRecords = 1
    /\ result.FailedRecords = 0 /\ result.FailedZones = 0
    /\ result.EndTime = "zero"

(***************************************************************************)
(* classifyError as a function of the message                               *)
(***************************************************************************)
LowerToUpper ==
    [c \in {"a","b","c","d","e","f","g","h","i","j","k","l","m","n","o","p","q",
            "r","s","t","u","v","w","x","y","z"} |->
       CHOOSE u \in DOMAIN UpperToLower : UpperToLower[u] = c]

\* the message base written in a letter-casing: "lower", "upper" (every
\* letter upper case) or "mixed" (every other character upper case)
RECURSIVE InCasing(_, _, _)
InCasing(base, casing, i) ==
    IF i > Len(base) THEN ""
    ELSE LET c == SubSeq(base, i, i)
             up == casing = "upper" \/ (casing = "mixed" /\ i % 2 = 1)
         IN  (IF up /\ c \in DOMAIN LowerToUpper THEN LowerToUpper[c] ELSE c)
             \o InCasing(base, casing, i + 1)

Casings == {"lower", "upper", "mixed"}

\* one term of every vocabulary group, in the order of the switch
GroupTerms == <<"unauthorized", "not found", "conflict", "rate limit", "timeout",
                "invalid", "forbidden">>

\* lower-case messages: every term alone, two terms of different groups in
\* one message (both orders), and messages without any term
MessageBases ==
    { "authentication failed", "request unauthorized", "invalid token",
      "invalid api token supplied", "zone not found", "zone does not exist",
      "record already exists", "edit conflict", "duplicate record",
      "rate limit exceeded", "too many requests", "network unreachable",
      "connection reset", "request timeout", "dial tcp failed",
      "invalid domain name", "validation failed", "bad request",
      "403 forbidden", "permission denied", "access denied",
      "internal server error", "boom", "" }
    \cup { GroupTerms[a] \o ": " \o GroupTerms[b] : a, b \in 1..Len(GroupTerms) }

ClassifyInputs ==
    { [msg |-> InCasing(b, c, 1), base |-> b] : b \in MessageBases, c \in Casings }

InitClassify ==
    /\ fn = "classifyError"
    /\ arg \in ClassifyInputs
    /\ res = NoRes
    /\ AwsIdle /\ CmdIdle /\ ListIdle /\ FlatIdle /\ CbkIdle
    /\ cfg = NoConfig /\ RetryIdle /\ cancelled = FALSE /\ BatchIdle

\* classifyError(errors.New(msg))
ClassifyCall ==
    /\ fn = "classifyError"
    /\ res = NoRes
    /\ res' = <<classifyError(PlainErr(arg.msg))>>
    /\ UNCHANGED <<fn, arg, clock, awsCalls, cmd, lst, flat, cbk, retryVars, cancelled, batchVars>>

NextClassify == ClassifyCall

SpecClassify == InitClassify /\ [][NextClassify]_vars

\* the vocabulary, group by group in priority order
Vocabulary ==
    << [type |-> ErrorTypeAuth,
        terms |-> {"authentication", "unauthorized", "invalid token", "invalid api token"}],
       [type |-> ErrorTypeNotFound, terms |-> {"not found", "does not exist"}],
       [type |-> ErrorTypeConflict, terms |-> {"already exists", "conflict", "duplicate"}],
       [type |-> ErrorTypeRateLimit, terms |-> {"rate limit", "too many requests"}],
       [type |-> ErrorTypeNetwork, terms |-> {"network", "connection", "timeout", "dial"}],
       [type |-> ErrorTypeValidation, terms |-> {"invalid", "validation", "bad request"}],
       [type |-> ErrorTypePermission,
        terms |-> {"forbidden", "permission denied", "access denied"}] >>

Occurs(term, text) ==
    \E i \in 1..Len(text) : \E j \in i..Len(text) : SubSeq(text, i, j) = term

MatchingGroups(text) ==
    { k \in 1..Len(Vocabulary) : \E t \in Vocabulary[k].terms : Occurs(t, text) }

FirstMatchingType(text) ==
    IF MatchingGroups(text) = {} THEN ErrorTypeUnknown
    ELSE Vocabulary[CHOOSE k \in MatchingGroups(text) :
                        \A m \in MatchingGroups(text) : k <= m].type

\* C11: classifyError gives the category of the first vocabulary group, in the
\* order Auth, NotFound, Conflict, RateLimit, Network, Validation, Permission,
\* one of whose terms occurs in the message ignoring letter case, and Unknown
\* when none occurs; "invalid token" is Auth in every letter-casing.
C11_FirstMatchWins ==
    (fn = "classifyError" /\ res # NoRes) =>
        /\ res[1] = FirstMatchingType(arg.base)
        /\ arg.base = "invalid token" => res[1] = ErrorTypeAuth

C11_Witness ==
    /\ fn = "classifyError"
    /\ arg.base = "invalid token" /\ arg.msg = "InVaLiD ToKeN"
    /\ Cardinality(MatchingGroups(arg.base)) = 2
    /\ res = <<ErrorTypeAuth>>

(***************************************************************************)
(* aws.Client.CreateInvalidation and CreateDistribution: CallerReference    *)
(***************************************************************************)
\* fmt.Sprintf("cloudctl-%d", time.Now().Unix()) at clock second t
GenCallerReference(t) == "cloudctl-" \o ToString(t)

InvalidationInputs ==
    { [DistributionID |-> "E1ABC", Paths |-> <<"/*">>, CallerReference |-> "my-ref"],
      [DistributionID |-> "E1ABC", Paths |-> <<"/*">>, CallerReference |-> ""],
      [DistributionID |-> "", Paths |-> <<"/*">>, CallerReference |-> ""],
      [DistributionID |-> "E1ABC", Paths |-> <<>>, CallerReference |-> "my-ref"] }

DistributionInputs ==
    { [DistributionID |-> "", Paths |-> <<>>, CallerReference |-> ""] }

AwsOps ==
    { [op |-> "CreateInvalidation", input |-> i] : i \in InvalidationInputs }
    \cup { [op |-> "CreateDistribution", input |-> i] : i \in DistributionInputs }

\* the call in progress is the last element of awsCalls
CurCall == awsCalls[Len(awsCalls)]

SetCur(c) == awsCalls' = [awsCalls EXCEPT ![Len(awsCalls)] = c]

AwsRest == <<fn, arg, res, cmd, lst, flat, cbk, retryVars, cancelled, batchVars>>

InitAws ==
    /\ AwsIdle
    /\ PureIdle /\ CmdIdle /\ ListIdle /\ FlatIdle /\ CbkIdle
    /\ cfg = NoConfig /\ RetryIdle /\ cancelled = FALSE /\ BatchIdle

\* a caller invokes CreateInvalidation or CreateDistribution; calls of one
\* process follow each other
AwsCallBegin ==
    /\ Len(awsCalls) < MaxAwsCalls
    /\ awsCalls # <<>> => CurCall.pc = "done"
    /\ \E o \in AwsOps :
         awsCalls' = Append(awsCalls,
            [op |-> o.op, input |-> o.input,
             pc |-> IF o.op = "CreateInvalidation" THEN "validate" ELSE "ref",
             callerReference |-> "", sent |-> <<>>,
             ret |-> [kind |-> "none"]])
    /\ UNCHANGED <<clock, AwsRest>>

\* CreateInvalidation: parameter validation
CIValidate ==
    /\ awsCalls # <<>>
    /\ CurCall.op = "CreateInvalidation" /\ CurCall.pc = "validate"
    /\ IF CurCall.input.DistributionID = "" \/ Len(CurCall.input.Paths) = 0
       THEN SetCur([CurCall EXCEPT !.pc = "done", !.ret = [kind |-> "error"]])
       ELSE SetCur([CurCall EXCEPT !.pc = "ref"])
    /\ UNCHANGED <<clock, AwsRest>>

\* CreateInvalidation: callerReference := input.CallerReference, or the
\* generated one when that is empty
CICallerReference ==
    /\ awsCalls # <<>>
    /\ CurCall.op = "CreateInvalidation" /\ CurCall.pc = "ref"
    /\ SetCur([CurCall EXCEPT
                 !.pc = "call",
                 !.callerReference =
                     IF CurCall.input.CallerReference = ""
                     THEN GenCallerReference(clock)
                     ELSE CurCall.input.CallerReference])
    /\ UNCHANGED <<clock, AwsRest>>

\* CreateDistribution: callerReference is always generated
CDCallerReference ==
    /\ awsCalls # <<>>
    /\ CurCall.op = "CreateDistribution" /\ CurCall.pc = "ref"
    /\ SetCur([CurCall EXCEPT !.pc = "call",
                              !.callerReference = GenCallerReference(clock)])
    /\ UNCHANGED <<clock, AwsRest>>

\* a provider call that builds a fresh reference for every transmission
ProviderCall_FreshReference ==
    /\ awsCalls # <<>>
    /\ CurCall.pc = "call"
    /\ Len(CurCall.sent) < MaxSendAttempts
    /\ LET ref == IF CurCall.op = "CreateInvalidation" /\ CurCall.input.CallerReference # ""
                  THEN CurCall.input.CallerReference
                  ELSE GenCallerReference(clock)
           sent == Append(CurCall.sent, [ref |-> ref, at |-> clock])
       IN  \E outcome \in {"again", "ok", "err", "empty"} :
             /\ outcome = "again" => Len(sent) < MaxSendAttempts
             /\ SetCur([CurCall EXCEPT
                  !.sent = sent,
                  !.pc = IF outcome = "again" THEN "call" ELSE "done",
                  !.ret = CASE outcome = "again" -> CurCall.ret
                            [] outcome = "ok" /\ CurCall.op = "CreateInvalidation" ->
                                 [kind |-> "invalidation", CallerReference |-> ref,
                                  Paths |-> CurCall.input.Paths]
                            [] outcome = "ok" -> [kind |-> "distribution"]
                            [] OTHER -> [kind |-> "error"]])
    /\ UNCHANGED <<clock, AwsRest>>

\* c.cloudfrontClient.CreateInvalidation / CreateDistribution (ctx, createInput)
\* and the return that follows: the provider client transmits the request it
\* was handed, once or again after a transient failure, and the call returns
\* the converted output or an error
ProviderCall ==
    /\ awsCalls # <<>>
    /\ CurCall.pc = "call"
    /\ Len(CurCall.sent) < MaxSendAttempts
    /\ LET sent == Append(CurCall.sent, [ref |-> CurCall.callerReference, at |-> clock])
       IN  \E outcome \in {"again", "ok", "err", "empty"} :
             /\ outcome = "again" => Len(sent) < MaxSendAttempts
             /\ SetCur([CurCall EXCEPT
                  !.sent = sent,
                  !.pc = IF outcome = "again" THEN "call" ELSE "done",
                  !.ret = CASE outcome = "again" -> CurCall.ret
                            [] outcome = "ok" /\ CurCall.op = "CreateInvalidation" ->
                                 [kind |-> "invalidation",
                                  CallerReference |-> CurCall.callerReference,
                                  Paths |-> CurCall.input.Paths]
                            [] outcome = "ok" -> [kind |-> "distribution"]
                            [] OTHER -> [kind |-> "error"]])
    /\ UNCHANGED <<clock, AwsRest>>

\* time.Now().Unix() moves to the next second
Tick ==
    /\ clock < MaxClock
    /\ clock' = clock + 1
    /\ UNCHANGED <<awsCalls, AwsRest>>

NextAws ==
    \/ AwsCallBegin
    \/ CIValidate
    \/ CICallerReference
    \/ CDCallerReference
    \/ ProviderCall
    \/ Tick

SpecAws == InitAws /\ [][NextAws]_vars

SentRefs(c) == { c.sent[r].ref : r \in 1..Len(c.sent) }

\* C12: within one CreateInvalidation call every transmission carries the same
\* CallerReference: the caller's when it gave one, otherwise the one value
\* generated before the provider call; the returned Invalidation reports it.
C12_ReferenceFixedPerCall ==
    \A k \in 1..Len(awsCalls) :
        LET c == awsCalls[k] IN
        c.op = "CreateInvalidation" =>
            /\ Cardinality(SentRefs(c)) <= 1
            /\ "" \notin SentRefs(c)
            /\ c.input.CallerReference # "" => SentRefs(c) \subseteq {c.input.CallerReference}
            /\ c.ret.kind = "invalidation" => SentRefs(c) = {c.ret.CallerReference}

C12_Witness ==
    \E k \in 1..Len(awsCalls) :
        LET c == awsCalls[k] IN
        /\ c.op = "CreateInvalidation" /\ c.input.CallerReference = ""
        /\ Len(c.sent) = 2 /\ c.sent[1].at < c.sent[2].at
        /\ c.ret.kind = "invalidation"

AutoGenerated(c) ==
    c.op = "CreateDistribution" \/ c.input.CallerReference = ""

\* C13: two distinct calls that generate their CallerReference send different
\* references, also when both happen within one clock second.
C13_GeneratedReferencesUnique ==
    \A i, j \in 1..Len(awsCalls) :
        (i # j /\ AutoGenerated(awsCalls[i]) /\ AutoGenerated(awsCalls[j]))
            => SentRefs(awsCalls[i]) \cap SentRefs(awsCalls[j]) = {}

(***************************************************************************)
(* cloudctl cf dns batch-create: runDNSBatchCreate                          *)
(***************************************************************************)
MinConcurrency == 1
MaxConcurrency == 10

\* values of the --concurrency flag
ConcurrencyFlags == (MinConcurrency - 2)..(MaxConcurrency + 2)

GetExitCode(e) ==
    IF e = NilErr THEN 0
    ELSE IF AsCfErr(e) = NilErr THEN 1
    ELSE CASE AsCfErr(e).type = ErrorTypeAuth -> 3
           [] AsCfErr(e).type = ErrorTypeValidation -> 5
           [] AsCfErr(e).type = ErrorTypePermission -> 3
           [] AsCfErr(e).type = ErrorTypeNetwork -> 4
           [] AsCfErr(e).type = ErrorTypeRateLimit -> 4
           [] OTHER -> 1

\* what happened to one zone of a run: resolution failed, or each of its
\* records was created ("ok") or refused ("conflict")
CmdZoneOutcomes ==
    UNION { { [resolved |-> FALSE, recs |-> [j \in 1..m |-> "skipped"]] }
            \cup { [resolved |-> TRUE, recs |-> f] : f \in [1..m -> {"ok", "conflict"}] }
            : m \in 1..MaxCmdRecords }

\* the DNSZoneResult processZone returns for zone i with outcome zo
CmdZoneResult(i, zo) ==
    LET n == Len(zo.recs)
        rrs == [j \in 1..n |->
                  processRecord(RecordCfg(j),
                     IF zo.recs[j] = "ok"
                     THEN [err |-> NilErr,
                           id |-> "rec-" \o ZoneIDOf(ZonePool[i]) \o "-" \o RecordCfg(j).Name]
                     ELSE [err |-> RecordConflict(RecordCfg(j).Name), id |-> ""])]
        failed == Cardinality({ j \in 1..n : ~rrs[j].Success })
    IN  IF ~zo.resolved
        THEN [ZeroZoneResult EXCEPT !.Zone = ZonePool[i], !.TotalRecords = n,
                                    !.Error = ZoneNotFound(ZonePool[i]),
                                    !.FailedRecords = n]
        ELSE [ZeroZoneResult EXCEPT !.Zone = ZonePool[i], !.TotalRecords = n,
                                    !.RecordResults = rrs,
                                    !.SuccessRecords = n - failed,
                                    !.FailedRecords = failed,
                                    !.Success = (failed = 0)]

\* the DNSBatchResult a batch function returns for the zone outcomes zos
CmdReport(zos) ==
    LET n == Len(zos)
        zrs == [i \in 1..n |-> CmdZoneResult(i, zos[i])]
    IN  Finish(Aggregate(
          [TotalZones |-> n,
           TotalRecords |-> SumTo([i \in 1..n |-> zrs[i].TotalRecords], n),
           SuccessZones |-> 0, SuccessRecords |-> 0, FailedZones |-> 0, FailedRecords |-> 0,
           ZoneResults |-> zrs,
           StartTime |-> "set", EndTime |-> "zero", Duration |-> "zero"], zrs, 1))

CmdReports ==
    UNION { { CmdReport(zos) : zos \in [1..n -> CmdZoneOutcomes] } : n \in 1..MaxCmdZones }

NoReport == [TotalZones |-> 0]

CmdRest == <<fn, arg, res, clock, awsCalls, lst, flat, cbk, retryVars, cancelled, batchVars>>

\* flags parsed; exit = <<>> while the process runs, <<code>> once it ended
InitCmd ==
    /\ \E c \in ConcurrencyFlags, d \in BOOLEAN :
         cmd = [pc |-> "clamp", flag |-> c, concurrency |-> c, dryRun |-> d,
                called |-> "none", limit |-> 0, result |-> NoReport, exit |-> <<>>]
    /\ PureIdle /\ AwsIdle /\ ListIdle /\ FlatIdle /\ CbkIdle
    /\ cfg = NoConfig /\ RetryIdle /\ cancelled = FALSE /\ BatchIdle

\* a clamp without the upper limit
CmdClamp_NoCeiling ==
    /\ cmd.pc = "clamp"
    /\ cmd' = [cmd EXCEPT !.pc = "load",
                          !.concurrency = IF @ < MinConcurrency THEN MinConcurrency ELSE @]
    /\ UNCHANGED CmdRest

\* if concurrency < 1 { concurrency = 1 }; if concurrency > 10 { concurrency = 10 }
CmdClamp ==
    /\ cmd.pc = "clamp"
    /\ cmd' = [cmd EXCEPT !.pc = "load",
                          !.concurrency = IF @ < MinConcurrency THEN MinConcurrency
                                          ELSE IF @ > MaxConcurrency THEN MaxConcurrency
                                          ELSE @]
    /\ UNCHANGED CmdRest

\* config, err := LoadDNSBatchConfig(configFile); on error exit with its code;
\* in dry-run mode print the plan and return nil
CmdLoad ==
    /\ cmd.pc = "load"
    /\ \E err \in {NilErr, PlainErr("read config file failed")} :
         cmd' = IF err # NilErr
                THEN [cmd EXCEPT !.pc = "exited", !.exit = <<GetExitCode(err)>>]
                ELSE IF cmd.dryRun
                THEN [cmd EXCEPT !.pc = "exited", !.exit = <<0>>]
                ELSE [cmd EXCEPT !.pc = "client"]
    /\ UNCHANGED CmdRest

\* client, err := cloudflare.NewClient(profile, logger.Logger)
CmdNewClient ==
    /\ cmd.pc = "client"
    /\ \E err \in {NilErr, PlainErr("cloudflare api token not configured")} :
         cmd' = IF err # NilErr
                THEN [cmd EXCEPT !.pc = "exited", !.exit = <<GetExitCode(err)>>]
                ELSE [cmd EXCEPT !.pc = "batch"]
    /\ UNCHANGED CmdRest

\* the batch call: concurrent when concurrency > 1, sequential otherwise; both
\* functions return a report and a nil error
CmdBatch ==
    /\ cmd.pc = "batch"
    /\ \E r \in CmdReports :
         cmd' = [cmd EXCEPT !.pc = "summary",
                            !.called = IF cmd.concurrency > 1 THEN "con" ELSE "seq",
                            !.limit = IF cmd.concurrency > 1 THEN cmd.concurrency ELSE 0,
                            !.result = r]
    /\ UNCHANGED CmdRest

\* a command that exits 1 only when no record was created
CmdFinish_OnlyTotalFailure ==
    /\ cmd.pc = "summary"
    /\ cmd' = [cmd EXCEPT !.pc = "exited",
                          !.exit = IF cmd.result.SuccessRecords = 0 THEN <<1>> ELSE <<0>>]
    /\ UNCHANGED CmdRest

\* the summary is printed; os.Exit(1) when something failed, else return nil
CmdFinish ==
    /\ cmd.pc = "summary"
    /\ cmd' = [cmd EXCEPT !.pc = "exited",
                          !.exit = IF cmd.result.FailedRecords > 0 \/ cmd.result.FailedZones > 0
                                   THEN <<1>> ELSE <<0>>]
    /\ UNCHANGED CmdRest

NextCmd ==
    \/ CmdClamp
    \/ CmdLoad
    \/ CmdNewClient
    \/ CmdBatch
    \/ CmdFinish

SpecCmd == InitCmd /\ [][NextCmd]_vars

\* C15: once the batch call has returned its report, the command ends with a
\* non-zero exit code exactly when the report has FailedRecords > 0 or
\* FailedZones > 0.
C15_ExitCodeIffFailures ==
    (cmd.pc = "exited" /\ cmd.called # "none") =>
        (cmd.exit # <<0>> <=>
            (cmd.result.FailedRecords > 0 \/ cmd.result.FailedZones > 0))

C15_Witness ==
    /\ cmd.pc = "exited" /\ cmd.called = "con"
    /\ cmd.result.TotalRecords = 4
    /\ cmd.result.SuccessRecords = 3 /\ cmd.result.FailedRecords = 1
    /\ cmd.result.FailedZones = 1
    /\ cmd.exit = <<1>>

(***************************************************************************)
(* DNSBatchConfig.Validate and LoadDNSBatchConfig                           *)
(***************************************************************************)
\* records as yaml.Unmarshal can deliver them: complete ones and ones with
\* a missing or unsupported field
FileRecords ==
    { [Type |-> "A", Name |-> "www", Content |-> "192.0.2.1", TTL |-> 0, Proxied |-> FALSE],
      [Type |-> "CNAME", Name |-> "blog", Content |-> "target.example.com", TTL |-> 300,
       Proxied |-> TRUE],
      [Type |-> "", Name |-> "www", Content |-> "192.0.2.1", TTL |-> 0, Proxied |-> FALSE],
      [Type |-> "A", Name |-> "", Content |-> "192.0.2.1", TTL |-> 0, Proxied |-> FALSE],
      [Type |-> "AAAA", Name |-> "www", Content |-> "", TTL |-> 0, Proxied |-> FALSE],
      [Type |-> "MX", Name |-> "mail", Content |-> "mx.example.com", TTL |-> 0,
       Proxied |-> FALSE] }

FileZones ==
    { [Zone |-> "a.com", Records |-> rs] :
        rs \in UNION { [1..m -> FileRecords] : m \in 0..MaxFileRecords } }
    \cup { [Zone |-> "", Records |-> <<r>>] : r \in {x \in FileRecords : x.Type = "CNAME"} }

FileConfigs ==
    { [Zones |-> zs] : zs \in UNION { [1..n -> FileZones] : n \in 0..MaxFileZones } }

\* the checks of one record, without the check of the record type
validateRecord_AnyType(i, zone, j, record) ==
    LET at == "zone[" \o ToString(i) \o "] (" \o zone.Zone \o ") record["
                \o ToString(j) \o "]: "
    IN  IF record.Type = "" THEN PlainErr(at \o "type is empty")
        ELSE IF record.Name = "" THEN PlainErr(at \o "name is empty")
        ELSE IF record.Content = "" THEN PlainErr(at \o "content is empty")
        ELSE NilErr

\* the body of the record loop for record j (0-based) of zone i (0-based):
\* the error it returns, NilErr when it goes on.  The default TTL is written
\* to the loop's copy of the record and leaves the configuration as it was.
validateRecord(i, zone, j, record) ==
    LET at == "zone[" \o ToString(i) \o "] (" \o zone.Zone \o ") record["
                \o ToString(j) \o "]: "
    IN  IF record.Type = "" THEN PlainErr(at \o "type is empty")
        ELSE IF record.Name = "" THEN PlainErr(at \o "name is empty")
        ELSE IF record.Content = "" THEN PlainErr(at \o "content is empty")
        ELSE IF record.Type \notin {"A", "AAAA", "CNAME"}
        THEN PlainErr(at \o "unsupported record type " \o record.Type)
        ELSE NilErr

\* the record loop from record j + 1 on
RECURSIVE validateRecords(_, _, _)
validateRecords(i, zone, j) ==
    IF j >= Len(zone.Records) THEN NilErr
    ELSE LET e == validateRecord(i, zone, j, zone.Records[j + 1])
         IN  IF e # NilErr THEN e ELSE validateRecords(i, zone, j + 1)

\* the zone loop from zone i + 1 on
RECURSIVE validateZones(_, _)
validateZones(c, i) ==
    IF i >= Len(c.Zones) THEN NilErr
    ELSE LET zone == c.Zones[i + 1]
         IN  IF zone.Zone = ""
             THEN PlainErr("zone[" \o ToString(i) \o "]: zone name is empty")
             ELSE IF Len(zone.Records) = 0
             THEN PlainErr("zone[" \o ToString(i) \o "] (" \o zone.Zone
                           \o "): at least one record is required")
             ELSE LET e == validateRecords(i, zone, 0)
                  IN  IF e # NilErr THEN e ELSE validateZones(c, i + 1)

\* (c *DNSBatchConfig) Validate()
Validate(c) ==
    IF Len(c.Zones) = 0 THEN PlainErr("at least one zone is required")
    ELSE validateZones(c, 0)

\* files: unreadable, not YAML, or YAML that decodes to a configuration
ConfigFiles ==
    { [readable |-> FALSE, parses |-> FALSE, config |-> [Zones |-> <<>>]],
      [readable |-> TRUE, parses |-> FALSE, config |-> [Zones |-> <<>>]] }
    \cup { [readable |-> TRUE, parses |-> TRUE, config |-> c] : c \in FileConfigs }

\* LoadDNSBatchConfig(filename): config is <<>> for a nil pointer
LoadDNSBatchConfig(file) ==
    IF ~file.readable
    THEN [config |-> <<>>, err |-> PlainErr("read config file failed: no such file")]
    ELSE IF ~file.parses
    THEN [config |-> <<>>, err |-> PlainErr("parse config file failed: not yaml")]
    ELSE IF Validate(file.config) # NilErr
    THEN [config |-> <<>>,
          err |-> PlainErr("config validation failed: "
                           \o ErrorString(Validate(file.config)))]
    ELSE [config |-> <<file.config>>, err |-> NilErr]

InitValidate ==
    /\ \/ fn = "Validate" /\ arg \in FileConfigs
       \/ fn = "LoadDNSBatchConfig" /\ arg \in ConfigFiles
    /\ res = NoRes
    /\ AwsIdle /\ CmdIdle /\ ListIdle /\ FlatIdle /\ CbkIdle
    /\ cfg = NoConfig /\ RetryIdle /\ cancelled = FALSE /\ BatchIdle

\* the loop variable `record` after `if record.TTL == 0 { record.TTL = 1 }`
defaultTTL(record) == [record EXCEPT !.TTL = IF @ = 0 THEN 1 ELSE @]

\* the receiver after Validate.  `for j, record := range zone.Records` hands
\* the body a copy of the element; the body assigns record.TTL on that copy
\* and has no statement that stores the copy into c.Zones[i].Records[j], so
\* every element is what it was before the call.
ReceiverAfterValidate(c) ==
    [Zones |-> [i \in 1..Len(c.Zones) |->
        [Zone |-> c.Zones[i].Zone,
         Records |-> [j \in 1..Len(c.Zones[i].Records) |->
            LET record == defaultTTL(c.Zones[i].Records[j])
            IN  c.Zones[i].Records[j]]]]]

\* DNSRecordCreateParams(recordConfig): the struct conversion in processRecord
DNSRecordCreateParams(recordConfig) ==
    [Type |-> recordConfig.Type, Name |-> recordConfig.Name,
     Content |-> recordConfig.Content, TTL |-> recordConfig.TTL,
     Proxied |-> recordConfig.Proxied]

ValidateCall ==
    /\ fn = "Validate"
    /\ res = NoRes
    /\ res' = <<Validate(arg)>>
    /\ arg' = ReceiverAfterValidate(arg)
    /\ UNCHANGED <<fn, clock, awsCalls, cmd, lst, flat, cbk, retryVars, cancelled, batchVars>>

LoadCall ==
    /\ fn = "LoadDNSBatchConfig"
    /\ res = NoRes
    /\ res' = <<LoadDNSBatchConfig(arg)>>
    /\ UNCHANGED <<fn, arg, clock, awsCalls, cmd, lst, flat, cbk, retryVars, cancelled, batchVars>>

NextValidate == ValidateCall \/ LoadCall

SpecValidate == InitValidate /\ [][NextValidate]_vars

SupportedTypes == {"A", "AAAA", "CNAME"}

Defective(c) ==
    \/ Len(c.Zones) = 0
    \/ \E i \in 1..Len(c.Zones) :
         \/ c.Zones[i].Zone = ""
         \/ Len(c.Zones[i].Records) = 0
         \/ \E j \in 1..Len(c.Zones[i].Records) :
              LET r == c.Zones[i].Records[j]
              IN  r.Type = "" \/ r.Name = "" \/ r.Content = "" \/ r.Type \notin SupportedTypes

\* C19: Validate returns an error exactly when the configuration has no zone,
\* a zone without name or without records, or a record with an empty type,
\* name or content or a type other than A, AAAA, CNAME; LoadDNSBatchConfig
\* returns a configuration only with a nil error and only one without any of
\* these defects, and an error otherwise.
C19_ValidateIff ==
    /\ (fn = "Validate" /\ res # NoRes) =>
          (res[1] # NilErr <=> Defective(arg))
    /\ (fn = "LoadDNSBatchConfig" /\ res # NoRes) =>
          /\ res[1].config # <<>> <=> res[1].err = NilErr
          /\ res[1].config # <<>> =>
                /\ arg.readable /\ arg.parses
                /\ res[1].config[1] = arg.config
                /\ ~Defective(res[1].config[1])
          /\ res[1].config = <<>> =>
                (~arg.readable \/ ~arg.parses \/ Defective(arg.config))

C19_Witness ==
    /\ fn = "Validate" /\ res # NoRes
    /\ Len(arg.Zones) = 2
    /\ ~Defective([Zones |-> <<arg.Zones[1]>>])
    /\ Len(arg.Zones[2].Records) = 2
    /\ arg.Zones[2].Records[1].Type = "CNAME"
    /\ arg.Zones[2].Records[2].Type = "MX"
    /\ res[1] # NilErr

(***************************************************************************)
(* validatePurgeParams                                                      *)
(***************************************************************************)
MaxPurgeItems == 30

\* a list of n entries
PurgeList(n) == [k \in 1..n |-> "item" \o ToString(k)]

\* list sizes: empty, one entry, the largest accepted, the smallest refused
PurgeListSizes == {0, 1, MaxPurgeItems, MaxPurgeItems + 1}

PurgeLists == { PurgeList(n) : n \in PurgeListSizes }

CachePurgeParams ==
    [PurgeEverything : BOOLEAN, Files : PurgeLists, Prefixes : PurgeLists,
     Tags : PurgeLists, Hosts : PurgeLists]

\* a validation without the check for several modes
validatePurgeParams_SeveralModes(params) ==
    LET modeCount == (IF params.PurgeEverything THEN 1 ELSE 0)
                     + (IF Len(params.Files) > 0 THEN 1 ELSE 0)
                     + (IF Len(params.Prefixes) > 0 THEN 1 ELSE 0)
                     + (IF Len(params.Tags) > 0 THEN 1 ELSE 0)
                     + (IF Len(params.Hosts) > 0 THEN 1 ELSE 0)
    IN  IF modeCount = 0 THEN PlainErr("at least one purge mode is required")
        ELSE IF Len(params.Files) > MaxPurgeItems THEN PlainErr("at most 30 files")
        ELSE IF Len(params.Prefixes) > MaxPurgeItems THEN PlainErr("at most 30 prefixes")
        ELSE IF Len(params.Tags) > MaxPurgeItems THEN PlainErr("at most 30 tags")
        ELSE IF Len(params.Hosts) > MaxPurgeItems THEN PlainErr("at most 30 hosts")
        ELSE NilErr

validatePurgeParams(params) ==
    LET modeCount == (IF params.PurgeEverything THEN 1 ELSE 0)
                     + (IF Len(params.Files) > 0 THEN 1 ELSE 0)
                     + (IF Len(params.Prefixes) > 0 THEN 1 ELSE 0)
                     + (IF Len(params.Tags) > 0 THEN 1 ELSE 0)
                     + (IF Len(params.Hosts) > 0 THEN 1 ELSE 0)
    IN  IF modeCount = 0 THEN PlainErr("at least one purge mode is required")
        ELSE IF modeCount > 1 THEN PlainErr("only one purge mode is allowed")
        ELSE IF Len(params.Files) > MaxPurgeItems THEN PlainErr("at most 30 files")
        ELSE IF Len(params.Prefixes) > MaxPurgeItems THEN PlainErr("at most 30 prefixes")
        ELSE IF Len(params.Tags) > MaxPurgeItems THEN PlainErr("at most 30 tags")
        ELSE IF Len(params.Hosts) > MaxPurgeItems THEN PlainErr("at most 30 hosts")
        ELSE NilErr

InitPurge ==
    /\ fn = "validatePurgeParams"
    /\ arg \in CachePurgeParams
    /\ res = NoRes
    /\ AwsIdle /\ CmdIdle /\ ListIdle /\ FlatIdle /\ CbkIdle
    /\ cfg = NoConfig /\ RetryIdle /\ cancelled = FALSE /\ BatchIdle

ValidatePurgeCall ==
    /\ fn = "validatePurgeParams"
    /\ res = NoRes
    /\ res' = <<validatePurgeParams(arg)>>
    /\ UNCHANGED <<fn, arg, clock, awsCalls, cmd, lst, flat, cbk, retryVars, cancelled, batchVars>>

NextPurge == ValidatePurgeCall

SpecPurge == InitPurge /\ [][NextPurge]_vars

\* the purge modes the parameters select
SelectedModes(p) ==
    (IF p.PurgeEverything THEN {"everything"} ELSE {})
    \cup { m \in {"Files", "Prefixes", "Tags", "Hosts"} : p[m] # <<>> }

\* C20: validatePurgeParams returns nil exactly when one and only one of
\* PurgeEverything, Files, Prefixes, Tags, Hosts is selected and the selected
\* list has at most 30 entries; no mode, several modes or a list of more than
\* 30 entries is an error.
C20_PurgeParamsIff ==
    (fn = "validatePurgeParams" /\ res # NoRes) =>
        (res[1] = NilErr <=>
            /\ Cardinality(SelectedModes(arg)) = 1
            /\ \A m \in SelectedModes(arg) \ {"everything"} : Len(arg[m]) <= 30)

C20_Witness ==
    /\ fn = "validatePurgeParams"
    /\ ~arg.PurgeEverything
    /\ Len(arg.Tags) = 30
    /\ SelectedModes(arg) = {"Tags"}
    /\ res = <<NilErr>>

(***************************************************************************)
(* WrapError applied twice                                                  *)
(***************************************************************************)
WrapOperations == {"", "create dns record", "list zones"}

WrapErrors ==
    { NilErr, CtxErr,
      PlainErr("dial tcp: connection refused"), PlainErr("Invalid Token"),
      PlainErr("boom") }
    \cup { CfErr(t, o, "message") :
             t \in {ErrorTypeUnknown, ErrorTypeAuth, ErrorTypeNotFound, ErrorTypeValidation},
             o \in {"", "find zone"} }
    \cup { WrappedCf("outer", CfErr(ErrorTypeConflict, o, "record already exists")) :
             o \in {"", "find zone"} }

InitWrap ==
    /\ fn = "WrapError"
    /\ arg \in [err : WrapErrors, op1 : WrapOperations, op2 : WrapOperations]
    /\ res = NoRes
    /\ AwsIdle /\ CmdIdle /\ ListIdle /\ FlatIdle /\ CbkIdle
    /\ cfg = NoConfig /\ RetryIdle /\ cancelled = FALSE /\ BatchIdle

\* first := WrapError(err, op1); second := WrapError(first, op2)
WrapTwiceCall ==
    /\ fn = "WrapError"
    /\ res = NoRes
    /\ LET first == WrapError(arg.err, arg.op1)
       IN  res' = <<[first |-> first, second |-> WrapError(first, arg.op2)]>>
    /\ UNCHANGED <<fn, arg, clock, awsCalls, cmd, lst, flat, cbk, retryVars, cancelled, batchVars>>

NextWrap == WrapTwiceCall

SpecWrap == InitWrap /\ [][NextWrap]_vars

\* C21: WrapError(nil, op) is nil; an *Error with a non-empty operation keeps
\* its category and its operation under WrapError, once and twice; and for
\* every error, wrapping with a non-empty operation and wrapping the result
\* again gives the first result.
C21_WrapErrorIdempotent ==
    (fn = "WrapError" /\ res # NoRes) =>
        /\ arg.err = NilErr => (res[1].first = NilErr /\ res[1].second = NilErr)
        /\ (arg.err.kind = "cf" /\ arg.err.op # "") =>
              /\ res[1].first.type = arg.err.type /\ res[1].first.op = arg.err.op
              /\ res[1].second.type = res[1].first.type
              /\ res[1].second.op = res[1].first.op
        /\ arg.op1 # "" => res[1].second = res[1].first

C21_Witness ==
    /\ fn = "WrapError" /\ res # NoRes
    /\ arg.err = CfErr(ErrorTypeNotFound, "find zone", "message")
    /\ arg.op1 = "create dns record" /\ arg.op2 = "list zones"
    /\ res[1].second.op = "find zone" /\ res[1].second.type = ErrorTypeNotFound

\* C22: after the clamp the concurrency is the --concurrency flag brought into
\* 1..10; the batch call is the sequential function exactly when that value
\* is 1, otherwise the concurrent function, which receives the value as its
\* limit, so its limit is never below 2 nor above 10.
C22_ClampAndModeSelection ==
    /\ cmd.pc \notin {"idle", "clamp"} =>
         cmd.concurrency = IF cmd.flag < 1 THEN 1
                           ELSE IF cmd.flag > 10 THEN 10 ELSE cmd.flag
    /\ (cmd.pc # "idle" /\ cmd.called # "none") =>
         /\ cmd.called = "seq" <=> cmd.concurrency = 1
         /\ cmd.called = "con" =>
              (cmd.limit = cmd.concurrency /\ cmd.limit >= 2 /\ cmd.limit <= 10)

C22_Witness ==
    /\ cmd.pc = "exited" /\ cmd.flag = 12
    /\ cmd.called = "con" /\ cmd.limit = 10

\* C23: after Validate has returned nil no record of the configuration has
\* TTL 0 (those that had it have TTL 1), and the parameters processRecord
\* passes to CreateDNSRecord for it have no TTL 0 either.
C23_DefaultTTLApplied ==
    (fn = "Validate" /\ res = <<NilErr>>) =>
        \A i \in 1..Len(arg.Zones) : \A j \in 1..Len(arg.Zones[i].Records) :
            /\ arg.Zones[i].Records[j].TTL # 0
            /\ DNSRecordCreateParams(arg.Zones[i].Records[j]).TTL # 0

\* C24: a WithRetry call that returned nil has invoked fn at least once and
\* its last invocation returned nil, for every retry configuration, a
\* negative MaxAttempts included.
C24_NilOnlyAfterSuccess ==
    (rpc = "done" /\ ret = NilErr) =>
        /\ Len(outcomes) >= 1
        /\ outcomes[Len(outcomes)] = NilErr

C29_WaitsWithinMaxDelay ==
    RetryEnabled => \A r \in 1..Len(waits) : waits[r] <= cfg.MaxDelay

(***************************************************************************)
(* ListZones / ListDNSRecords: a paginated fetch run by WithRetry            *)
(***************************************************************************)
\* the provider's listing has the items 1..n; page p (1-based) of it
PageItems(n, p) ==
    LET first == (p - 1) * ListPerPage + 1
        last == IF p * ListPerPage < n THEN p * ListPerPage ELSE n
    IN  [k \in 1..(IF last >= first THEN last - first + 1 ELSE 0) |-> first + k - 1]

ListRest == <<fn, arg, res, clock, awsCalls, cmd, flat, cbk, retryVars, cancelled, batchVars>>

\* var allZones []ZoneInfo; err := c.WithRetry(ctx, ..., func() error { page := 1 ...
\* with retry enabled and maxAttempts attempts
InitList ==
    /\ \E op \in {"ListZones", "ListDNSRecords"}, n \in 0..MaxListItems,
          m \in 1..MaxListAttempts :
         lst = [pc |-> "fetch", op |-> op, n |-> n, maxAttempts |-> m, attempt |-> 1,
                page |-> 1, all |-> <<>>, ret |-> "none"]
    /\ PureIdle /\ AwsIdle /\ CmdIdle /\ FlatIdle /\ CbkIdle
    /\ cfg = NoConfig /\ RetryIdle /\ cancelled = FALSE /\ BatchIdle

\* one iteration of the page loop whose API call succeeds: append the page's
\* items; break when the page is short, else page++
ListPageOk ==
    /\ lst.pc = "fetch"
    /\ LET items == PageItems(lst.n, lst.page)
       IN  lst' = [lst EXCEPT !.all = @ \o items,
                              !.pc = IF Len(items) < ListPerPage THEN "fnret" ELSE "fetch",
                              !.page = IF Len(items) < ListPerPage THEN @ ELSE @ + 1]
    /\ UNCHANGED ListRest

\* the API call of the current page fails: fn returns the error; WithRetry
\* waits and invokes fn again (page := 1 anew, the captured slice stays), or
\* returns the wrapped error after the last attempt
ListPageFail ==
    /\ lst.pc = "fetch"
    /\ lst' = IF lst.attempt < lst.maxAttempts
              THEN [lst EXCEPT !.attempt = @ + 1, !.page = 1]
              ELSE [lst EXCEPT !.pc = "done", !.ret = "error"]
    /\ UNCHANGED ListRest

\* fn returned nil: WithRetry returns nil and the function returns the slice
ListReturn ==
    /\ lst.pc = "fnret"
    /\ lst' = [lst EXCEPT !.pc = "done", !.ret = "ok"]
    /\ UNCHANGED ListRest

NextList == ListPageOk \/ ListPageFail \/ ListReturn

SpecList == InitList /\ [][NextList]_vars

\* C25: a listing call that returns without error returns the provider's items
\* 1..n, each once and in order, whether or not an attempt failed on the way.
C25_ListingExactlyOnce ==
    (lst.pc = "done" /\ lst.ret = "ok") => lst.all = [k \in 1..lst.n |-> k]

(***************************************************************************)
(* The batch engine under a fair scheduler                                  *)
(***************************************************************************)
\* every goroutine that can take a step eventually takes one, and every
\* provider call returns: the steps of NextBatch are not postponed forever
FairSpecBatch == InitBatch /\ [][NextBatch]_vars /\ WF_vars(NextBatch)

\* C26: every run of BatchCreateDNSRecordsConcurrent eventually returns its
\* report, for every plan and every maxConcurrency >= 0.
C26_ConcurrentTerminates == (mode = "con") ~> Returned

(***************************************************************************)
(* The progress callback inside the zone goroutines                         *)
(***************************************************************************)
CbkRest == <<fn, arg, res, clock, awsCalls, cmd, lst, flat, retryVars, cancelled, batchVars>>

CbkTasks == DOMAIN cbk.pc

\* the goroutines are started (non-nil progressCallback); sem counts the
\* elements of the semaphore channel, rec[i] the records task i has handled
InitCbk ==
    /\ \E n \in 1..MaxCbkTasks, c \in 1..MaxConcurrencyBound, r \in 1..MaxCbkRecords :
         cbk = [pc |-> [i \in 1..n |-> "spawned"], limit |-> c, sem |-> 0,
                records |-> r, rec |-> [i \in 1..n |-> 0]]
    /\ PureIdle /\ AwsIdle /\ CmdIdle /\ ListIdle /\ FlatIdle
    /\ cfg = NoConfig /\ RetryIdle /\ cancelled = FALSE /\ BatchIdle

\* semaphore <- struct{}{} succeeds and the task enters
\* progressCallback("Processing zone ...")
CbkAcquire(i) ==
    /\ cbk.pc[i] = "spawned"
    /\ cbk.sem < cbk.limit
    /\ cbk' = [cbk EXCEPT !.sem = @ + 1, !.pc[i] = "cb_zone"]
    /\ UNCHANGED CbkRest

\* the zone callback returns; processZone is entered
CbkZoneReturn(i) ==
    /\ cbk.pc[i] = "cb_zone"
    /\ cbk' = [cbk EXCEPT !.pc[i] = "resolve"]
    /\ UNCHANGED CbkRest

\* GetZoneByName: on failure processZone returns, else the record loop
\* starts and the task enters progressCallback("  Creating record ...")
CbkResolve(i) ==
    /\ cbk.pc[i] = "resolve"
    /\ \E ok \in BOOLEAN :
         cbk' = [cbk EXCEPT !.pc[i] = IF ok THEN "cb_rec" ELSE "pzret"]
    /\ UNCHANGED CbkRest

\* the record callback returns; processRecord follows
CbkRecordReturn(i) ==
    /\ cbk.pc[i] = "cb_rec"
    /\ cbk' = [cbk EXCEPT !.pc[i] = "create"]
    /\ UNCHANGED CbkRest

\* processRecord returns; next record (callback first) or end of the loop
CbkCreate(i) ==
    /\ cbk.pc[i] = "create"
    /\ cbk' = [cbk EXCEPT !.rec[i] = @ + 1,
                          !.pc[i] = IF cbk.rec[i] + 1 < cbk.records THEN "cb_rec"
                                    ELSE "pzret"]
    /\ UNCHANGED CbkRest

\* result.ZoneResults[idx] = ...; <-semaphore; wg.Done()
CbkRelease(i) ==
    /\ cbk.pc[i] = "pzret"
    /\ cbk' = [cbk EXCEPT !.sem = @ - 1, !.pc[i] = "done"]
    /\ UNCHANGED CbkRest

NextCbk ==
    \/ \E i \in CbkTasks : CbkAcquire(i)
    \/ \E i \in CbkTasks : CbkZoneReturn(i)
    \/ \E i \in CbkTasks : CbkResolve(i)
    \/ \E i \in CbkTasks : CbkRecordReturn(i)
    \/ \E i \in CbkTasks : CbkCreate(i)
    \/ \E i \in CbkTasks : CbkRelease(i)

SpecCbk == InitCbk /\ [][NextCbk]_vars

\* zone tasks that are executing the progress callback
InCallback == { i \in CbkTasks : cbk.pc[i] \in {"cb_zone", "cb_rec"} }

\* C30: at no moment are two zone tasks executing the progress callback.
C30_CallbackSerialised == Cardinality(InCallback) <= 1

(***************************************************************************)
(* The flat AWS batch operations                                            *)
(***************************************************************************)
FlatRest == <<fn, arg, res, clock, awsCalls, cmd, lst, cbk, retryVars, cancelled, batchVars>>

\* what buildCacheBehaviors can be given: no behaviour at all, a behaviour
\* naming an unknown policy, or a well-formed list
BehaviorConfigs == {"empty", "unknown_policy", "valid"}

buildCacheBehaviors(behaviors) == behaviors = "valid"

FlatNames == {"a", "b"}

DistributionConfigs == [Name : FlatNames, Behaviors : BehaviorConfigs]

CertificateRequests == [Name : FlatNames, Behaviors : {"valid"}]

FlatInputs(items) == UNION { [1..n -> items] : n \in 0..MaxFlatItems }

\* the pair (result, err) of CreateDistributionWithConfig; a nil result is <<>>
CreateDistributionWithConfig(dc, providerOk) ==
    IF ~buildCacheBehaviors(dc.Behaviors)
    THEN [result |-> <<>>, err |-> TRUE]
    ELSE IF ~providerOk
         THEN [result |-> <<[Name |-> dc.Name, Success |-> FALSE]>>, err |-> TRUE]
         ELSE [result |-> <<[Name |-> dc.Name, Success |-> TRUE]>>, err |-> FALSE]

InitFlat ==
    /\ \E op \in {"BatchRequestCertificates", "BatchCreateDistributions"} :
         \E input \in FlatInputs(IF op = "BatchRequestCertificates"
                                 THEN CertificateRequests ELSE DistributionConfigs) :
            flat = [pc |-> "loop", op |-> op, input |-> input, i |-> 1,
                    Total |-> Len(input), Success |-> 0, Failed |-> 0,
                    Results |-> <<>>]
    /\ PureIdle /\ AwsIdle /\ CmdIdle /\ ListIdle /\ CbkIdle
    /\ cfg = NoConfig /\ RetryIdle /\ cancelled = FALSE /\ BatchIdle

\* one iteration of the loop of BatchRequestCertificates
RequestCertificateStep ==
    /\ flat.pc = "loop" /\ flat.op = "BatchRequestCertificates"
    /\ flat.i <= Len(flat.input)
    /\ \E ok \in BOOLEAN :
         flat' = [flat EXCEPT
                    !.i = @ + 1,
                    !.Success = IF ok THEN @ + 1 ELSE @,
                    !.Failed = IF ok THEN @ ELSE @ + 1,
                    !.Results = Append(@, [Name |-> flat.input[flat.i].Name,
                                           Success |-> ok])]
    /\ UNCHANGED FlatRest

\* one iteration of the loop of BatchCreateDistributions
CreateDistributionStep ==
    /\ flat.pc = "loop" /\ flat.op = "BatchCreateDistributions"
    /\ flat.i <= Len(flat.input)
    /\ \E providerOk \in BOOLEAN :
         LET r == CreateDistributionWithConfig(flat.input[flat.i], providerOk) IN
         flat' = [flat EXCEPT
                    !.i = @ + 1,
                    !.Success = IF r.err THEN @ ELSE @ + 1,
                    !.Failed = IF r.err THEN @ + 1 ELSE @,
                    !.Results = IF r.result # <<>> THEN Append(@, r.result[1])
                                ELSE @]
    /\ UNCHANGED FlatRest

\* the loop is over: return result
FlatReturn ==
    /\ flat.pc = "loop"
    /\ flat.i > Len(flat.input)
    /\ flat' = [flat EXCEPT !.pc = "returned"]
    /\ UNCHANGED FlatRest

NextFlat ==
    \/ RequestCertificateStep
    \/ CreateDistributionStep
    \/ FlatReturn

SpecFlat == InitFlat /\ [][NextFlat]_vars

FlatCounted(flag) ==
    Cardinality({ k \in 1..Len(flat.Results) : flat.Results[k].Success = flag })

\* C28: a returned flat batch result has Total = len(input), Success + Failed =
\* Total, and one Results entry per input item, in input order, whose Success
\* flag agrees with the counters.
C28_FlatResultShape ==
    flat.pc = "returned" =>
        /\ flat.Total = Len(flat.input)
        /\ flat.Success + flat.Failed = flat.Total
        /\ Len(flat.Results) = Len(flat.input)
        /\ \A k \in 1..Len(flat.Results) : flat.Results[k].Name = flat.input[k].Name
        /\ FlatCounted(TRUE) = flat.Success
        /\ FlatCounted(FALSE) = flat.Failed

====
